---- MODULE Spec2Model ----
(***************************************************************************)
(* Model of the fintrak transaction classification core:                    *)
(*   backend/app/services/categorization_service.py  (orchestrator, jobs)   *)
(*   backend/app/services/rule_service.py            (merchant rules)       *)
(*   backend/app/services/desc_rule_service.py       (description rules)    *)
(*   backend/app/services/pattern_extractor.py       (extract_pattern)      *)
(*   backend/app/services/category_service.py        (category resolution)  *)
(*   backend/app/services/transaction_service.py     (manual correction)    *)
(*   backend/app/services/batch_service.py           (batch records)        *)
(*   backend/app/services/gemini_client.py           (with_retry)           *)
(*   backend/app/database.py                         (safe_update)          *)
(*                                                                         *)
(* Text is modelled as sequences of one-character strings, so that          *)
(* lowercasing, stripping, substring and wildcard matching are computed     *)
(* the way the code computes them.  Confidence values are percentages       *)
(* (0.7 is 70).  Timestamps are values of a logical clock.  uuid4 values     *)
(* are fresh integers.                                                      *)
(***************************************************************************)
EXTENDS Integers, Sequences, FiniteSets, TLC

(***************************************************************************)
(* Bounds of the model.                                                     *)
(***************************************************************************)
NumTx == 2
MaxEdits == 1

None == "None"

(***************************************************************************)
(* Text helpers (Python str methods and the regular expressions used).      *)
(***************************************************************************)
UpperChars == <<"A", "B", "C", "D", "E", "F", "G", "H", "I", "J", "K", "L", "M",
                "N", "O", "P", "Q", "R", "S", "T", "U", "V", "W", "X", "Y", "Z">>
LowerChars == <<"a", "b", "c", "d", "e", "f", "g", "h", "i", "j", "k", "l", "m",
                "n", "o", "p", "q", "r", "s", "t", "u", "v", "w", "x", "y", "z">>
Digits == {"0", "1", "2", "3", "4", "5", "6", "7", "8", "9"}

UpperSet == {UpperChars[i] : i \in 1..Len(UpperChars)}
LowerSet == {LowerChars[i] : i \in 1..Len(LowerChars)}
\* the lowercase letter of every uppercase letter
LowerOf ==
    [c \in UpperSet |-> LowerChars[CHOOSE i \in 1..Len(UpperChars) : UpperChars[i] = c]]

IsUpper(c) == c \in UpperSet
IsLetter(c) == c \in UpperSet \/ c \in LowerSet
IsDigit(c) == c \in Digits
IsSpace(c) == c = " "
\* \w of Python's re: letters, digits and the underscore
IsWord(c) == IsLetter(c) \/ IsDigit(c) \/ c = "_"

LowerChar(c) == IF IsUpper(c) THEN LowerOf[c] ELSE c

\* str.lower()
Lower(s) == [i \in 1..Len(s) |-> LowerChar(s[i])]

RECURSIVE LStrip(_)
LStrip(s) == IF s # <<>> /\ IsSpace(Head(s)) THEN LStrip(Tail(s)) ELSE s

RECURSIVE RStrip(_)
RStrip(s) ==
    IF s # <<>> /\ IsSpace(s[Len(s)]) THEN RStrip(SubSeq(s, 1, Len(s) - 1)) ELSE s

\* str.strip()
Strip(s) == RStrip(LStrip(s))

\* Python's "p in s"
Contains(p, s) ==
    \E i \in 1..(Len(s) - Len(p) + 1) : SubSeq(s, i, i + Len(p) - 1) = p

StartsWith(s, p) == Len(p) <= Len(s) /\ SubSeq(s, 1, Len(p)) = p

EndsWith(s, p) == Len(p) <= Len(s) /\ SubSeq(s, Len(s) - Len(p) + 1, Len(s)) = p

\* re.sub(r"\s+", " ", s)
RECURSIVE CollapseSpaces(_)
CollapseSpaces(s) ==
    IF s = <<>> THEN <<>>
    ELSE IF IsSpace(Head(s))
         THEN <<" ">> \o CollapseSpaces(LStrip(s))
         ELSE <<Head(s)>> \o CollapseSpaces(Tail(s))

\* str.replace(old, new), leftmost non-overlapping occurrences
RECURSIVE Replace(_, _, _)
Replace(s, old, new) ==
    IF s = <<>> THEN <<>>
    ELSE IF StartsWith(s, old)
         THEN new \o Replace(SubSeq(s, Len(old) + 1, Len(s)), old, new)
         ELSE <<Head(s)>> \o Replace(Tail(s), old, new)

(***************************************************************************)
(* pattern_extractor.extract_pattern                                        *)
(***************************************************************************)
\* length of the longest prefix of s made of characters satisfying the class
RECURSIVE WordRunLen(_)
WordRunLen(s) == IF s # <<>> /\ IsWord(Head(s)) THEN 1 + WordRunLen(Tail(s)) ELSE 0

RECURSIVE DigitRunLen(_)
DigitRunLen(s) == IF s # <<>> /\ IsDigit(Head(s)) THEN 1 + DigitRunLen(Tail(s)) ELSE 0

RECURSIVE SpaceRunLen(_)
SpaceRunLen(s) == IF s # <<>> /\ IsSpace(Head(s)) THEN 1 + SpaceRunLen(Tail(s)) ELSE 0

Drop(s, n) == SubSeq(s, n + 1, Len(s))

\* \d{3,} occurs in the token
HasDigitRun3(tok) ==
    \E i \in 1..(Len(tok) - 2) : IsDigit(tok[i]) /\ IsDigit(tok[i + 1]) /\ IsDigit(tok[i + 2])

\* re.sub(r'\b\w*\d{3,}\w*\b', '*', s): a match starts at a word boundary and
\* extends over the whole maximal run of word characters
RECURSIVE ReplaceDigitTokens(_)
ReplaceDigitTokens(s) ==
    IF s = <<>> THEN <<>>
    ELSE IF IsWord(Head(s))
         THEN LET n == WordRunLen(s)
                  tok == SubSeq(s, 1, n)
              IN  (IF HasDigitRun3(tok) THEN <<"*">> ELSE tok)
                      \o ReplaceDigitTokens(Drop(s, n))
         ELSE <<Head(s)>> \o ReplaceDigitTokens(Tail(s))

\* re.sub(r'(?<=#)\d{3,}', '*', s)
RECURSIVE ReplaceHashDigits(_)
ReplaceHashDigits(s) ==
    IF s = <<>> THEN <<>>
    ELSE IF Head(s) = "#" /\ DigitRunLen(Tail(s)) >= 3
         THEN <<"#", "*">> \o ReplaceHashDigits(Drop(Tail(s), DigitRunLen(Tail(s))))
         ELSE <<Head(s)>> \o ReplaceHashDigits(Tail(s))

\* number of characters of the longest prefix of s of the form (\s+\*)+,
\* 0 when there is none
RECURSIVE StarGroupLen(_)
StarGroupLen(s) ==
    LET k == SpaceRunLen(s)
    IN  IF k >= 1 /\ Len(s) > k /\ s[k + 1] = "*"
        THEN k + 1 + StarGroupLen(Drop(s, k + 1))
        ELSE 0

\* re.sub(r'\*(\s+\*)+', '*', s)
RECURSIVE CollapseStars(_)
CollapseStars(s) ==
    IF s = <<>> THEN <<>>
    ELSE IF Head(s) = "*" /\ StarGroupLen(Tail(s)) > 0
         THEN <<"*">> \o CollapseStars(Drop(Tail(s), StarGroupLen(Tail(s))))
         ELSE <<Head(s)>> \o CollapseStars(Tail(s))

extract_pattern(description) ==
    IF description = <<>> \/ Strip(description) = <<>> THEN <<>>
    ELSE Lower(Strip(CollapseSpaces(
             CollapseStars(ReplaceHashDigits(ReplaceDigitTokens(Strip(description)))))))

(***************************************************************************)
(* desc_rule_service._wildcard_to_regex and re.match on the result: the     *)
(* pattern is escaped, every * becomes .*, the regex is anchored at both    *)
(* ends and compiled with IGNORECASE.                                       *)
(***************************************************************************)
RECURSIVE _wildcard_to_regex(_, _)
_wildcard_to_regex(pattern, text) ==
    IF pattern = <<>> THEN text = <<>>
    ELSE IF Head(pattern) = "*"
         THEN \/ _wildcard_to_regex(Tail(pattern), text)
              \/ text # <<>> /\ _wildcard_to_regex(pattern, Tail(text))
         ELSE /\ text # <<>>
              /\ LowerChar(Head(pattern)) = LowerChar(Head(text))
              /\ _wildcard_to_regex(Tail(pattern), Tail(text))

(***************************************************************************)
(* category_service._normalize_category_name                                *)
(***************************************************************************)
_normalize_category_name(name) ==
    LET s1 == Lower(Strip(name))
        s2 == CollapseSpaces(s1)
        s3 == Replace(s2, <<" ", "&", " ">>, <<" ", "a", "n", "d", " ">>)
    IN  IF EndsWith(s3, <<"s">>) /\ ~EndsWith(s3, <<"s", "s">>)
        THEN SubSeq(s3, 1, Len(s3) - 1)
        ELSE s3

(***************************************************************************)
(* Values.                                                                  *)
(***************************************************************************)
\* SQL NULL / Python None of an id column, a score column and a text column
NullId == 0
NullScore == -1
NullText == <<"NULL">>

\* Python truthiness of an optional string
Truthy(text) == text # NullText /\ text # <<>>

\* app/config.py
CATEGORIZATION_CONFIDENCE_THRESHOLD == 70
CATEGORIZATION_BATCH_SIZE == 50
CATEGORIZATION_MAX_RETRIES == 3
\* default limit of get_unclassified_transactions, limit of the rule scans
DefaultLimit == 1000
RuleScanLimit == 1000

TxIds == 1..NumTx
Threads == {"t1", "t2"}
\* every call creates at most one batch row
BatchIds == 1..Cardinality(Threads)

MerchantAb == <<"A", "b">>
MerchantCd == <<"C", "d">>
PatternAb == <<"a", "b">>
DescD123 == <<"D", " ", "1", "2", "3">>
DescD456 == <<"D", " ", "4", "5", "6">>
DescE7 == <<"E", " ", "7">>
DescBlank == <<" ">>
PatternD == <<"d", " ", "*">>
NameGas == <<"G", "a", "s">>
NamePet == <<"P", "e", "t">>
NameGasLower == <<"g", "a", "s">>
NameTax == <<"T", "a", "x">>
NameTaxUpper == <<" ", "T", "A", "X">>
SubCoffee == <<"C", "o">>

\* the columns of a transactions row that the classification core reads or
\* writes (database.TRANSACTION_COLUMNS without amount, reviewed, notes, ...);
\* the rows are dated in the order of their ids, newest first
Tx(account, desc, orig, merchant, cat, score, source, sub, disc, enrich) ==
    [account_id |-> account, description |-> desc,
     original_description |-> orig, normalized_merchant |-> merchant,
     category_id |-> cat, confidence_score |-> score,
     categorization_source |-> source, subcategory |-> sub,
     is_discretionary |-> disc, enrichment_source |-> enrich]

\* an uncategorized transaction with a normalized merchant
TxMerchant ==
    Tx("acc1", DescD123, DescD123, MerchantAb, NullId, NullScore, None,
       NullText, None, None)
\* an uncategorized transaction without normalized merchant
TxPlain ==
    Tx("acc2", DescD456, DescD456, NullText, NullId, NullScore, None,
       NullText, None, None)
\* an uncategorized transaction whose descriptions are blank
TxBlank ==
    Tx("acc2", DescBlank, <<>>, NullText, NullId, NullScore, None,
       NullText, None, None)
\* a transaction categorized by an import, not enriched yet
TxImported ==
    Tx("acc2", DescE7, DescE7, NullText, 1, NullScore, "import",
       NullText, None, None)
\* a transaction that is categorized and enriched
TxClassified ==
    Tx("acc2", DescE7, DescE7, MerchantCd, 1, 100, "rule",
       SubCoffee, "false", "ai")

\* the rows a transaction id may hold initially: the two newest transactions
\* are the ones in play, the older ones were classified by earlier runs
InitialRows(id) ==
    IF id = 1 THEN {TxMerchant, TxImported}
    ELSE IF id = 2 THEN {TxPlain, TxBlank, TxClassified}
    ELSE {TxClassified}

InitialCategories ==
    {[id |-> 1, name |-> NameGas, group_name |-> "Essential"],
     [id |-> 2, name |-> NamePet, group_name |-> "Lifestyle"]}

InitialRule ==
    [id |-> 1, merchant_pattern |-> PatternAb, category_id |-> 2, created_at |-> 1]

InitialDescRule ==
    [id |-> 1, account_id |-> "acc1", description_pattern |-> PatternD,
     category_id |-> 1, created_at |-> 1, source |-> "manual"]

NoRule ==
    [id |-> NullId, merchant_pattern |-> <<>>, category_id |-> NullId, created_at |-> 0]

NoDescRule ==
    [id |-> NullId, account_id |-> None, description_pattern |-> <<>>,
     category_id |-> NullId, created_at |-> 0, source |-> None]

IdleCall ==
    [pc |-> "idle", force_ai |-> FALSE, batch_size |-> 0, transactions |-> <<>>,
     batch_id |-> 0, outcome |-> None]

VARIABLES
    GEMINI_API_KEY,  \* app.config.GEMINI_API_KEY is set
    transactions,    \* table transactions: id -> row
    categories,      \* table categories
    rules,           \* table categorization_rules
    desc_rules,      \* table description_pattern_rules
    batches,         \* table categorization_batches: id -> row
    _active_jobs,    \* categorization_service._active_jobs: batch_id -> BatchJobState
    call,            \* frames of the calls of trigger_batch_classification, per thread
    run,             \* frames of the classification runs, per batch id
    now,             \* datetime.utcnow(), a logical clock
    edits,           \* number of manual edits that changed a category
    prompts,         \* batch id -> ids of the transactions placed in a prompt
    stmt             \* frames of the updates of a row that run statement by statement

vars ==
    <<GEMINI_API_KEY, transactions, categories, rules, desc_rules, batches,
      _active_jobs, call, run, now, edits, prompts, stmt>>

\* the store at the start: every transaction holds one of its initial rows;
\* the rule tables hold the rules persisted earlier
InitStore ==
    /\ GEMINI_API_KEY = TRUE
    /\ transactions \in {f \in [TxIds -> UNION {InitialRows(i) : i \in TxIds}] :
                            \A i \in TxIds : f[i] \in InitialRows(i)}
    /\ categories = InitialCategories
    /\ rules \in {{}, {InitialRule}}
    /\ desc_rules = {InitialDescRule}

InitProcess ==
    /\ batches = <<>>
    /\ _active_jobs = <<>>
    /\ run = <<>>
    /\ now = 2
    /\ edits = 0
    /\ prompts = <<>>

\* no update of a row is followed statement by statement
InitStatements == stmt = <<>>

\* one thread calls trigger_batch_classification
Init ==
    /\ InitStore
    /\ InitProcess
    /\ InitStatements
    /\ call = [t \in {"t1"} |-> IdleCall]

\* the threads of Threads call trigger_batch_classification concurrently;
\* one transaction is a candidate
InitJobs ==
    /\ GEMINI_API_KEY \in BOOLEAN
    /\ transactions = [i \in TxIds |-> IF i = 1 THEN TxMerchant ELSE TxClassified]
    /\ categories = InitialCategories
    /\ rules \in {{}, {InitialRule}}
    /\ desc_rules = {}
    /\ InitProcess
    /\ InitStatements
    /\ call = [t \in Threads |-> IdleCall]

(***************************************************************************)
(* Store operations.                                                        *)
(***************************************************************************)
\* the columns TransactionService.update selects and re-inserts
UpdateColumns ==
    {"account_id", "description", "original_description", "category_id",
     "normalized_merchant", "confidence_score", "categorization_source"}

\* value of a column that an INSERT does not list
ColumnDefault(col) == IF col \in {"subcategory"} THEN NullText ELSE None

\* database.safe_update_transaction: the row is read, the supplied fields are
\* replaced, the row is deleted and re-inserted with all its columns
safe_update_transaction(table, transaction_id, updates) ==
    IF transaction_id \notin DOMAIN table THEN table
    ELSE [table EXCEPT ![transaction_id] =
              [c \in DOMAIN @ |-> IF c \in DOMAIN updates THEN updates[c] ELSE @[c]]]

\* ids in the order of ORDER BY date DESC
RECURSIVE OrderedIds(_, _)
OrderedIds(ids, from) ==
    IF from > NumTx THEN <<>>
    ELSE (IF from \in ids THEN <<from>> ELSE <<>>) \o OrderedIds(ids, from + 1)

Take(seq, limit) ==
    IF limit = NullId \/ Len(seq) <= limit THEN seq ELSE SubSeq(seq, 1, limit)

\* CategorizationService.get_unclassified_transactions; transaction_ids is a
\* set of ids or {} for None (an empty list is falsy as well)
get_unclassified_transactions(transaction_ids, limit) ==
    LET needing == {id \in DOMAIN transactions :
                       \/ transactions[id].category_id = NullId
                       \/ transactions[id].enrichment_source = None}
        selected == IF transaction_ids # {} THEN needing \cap transaction_ids
                    ELSE needing
        ordered == Take(OrderedIds(selected, 1), limit)
    IN  [k \in 1..Len(ordered) |->
            [id |-> ordered[k],
             description |-> transactions[ordered[k]].description,
             original_description |-> transactions[ordered[k]].original_description,
             normalized_merchant |-> transactions[ordered[k]].normalized_merchant,
             account_id |-> transactions[ordered[k]].account_id,
             category_id |-> transactions[ordered[k]].category_id]]

\* RuleService.find_matching_rule: the rules are scanned newest first (at
\* most RuleScanLimit of them); the first whose pattern is contained in the
\* lowercased merchant is returned
find_matching_rule(normalized_merchant) ==
    IF ~Truthy(normalized_merchant) THEN NoRule
    ELSE LET scanned == {r \in rules :
                            Cardinality({q \in rules : q.created_at > r.created_at})
                                < RuleScanLimit}
             matching == {r \in scanned :
                             Contains(r.merchant_pattern, Lower(normalized_merchant))}
         IN  IF matching = {} THEN NoRule
             ELSE CHOOSE r \in matching :
                      \A q \in matching : q.created_at <= r.created_at

\* variant: the rules of every account are scanned
desc_find_matching_rule_anyAccount(description, account_id) ==
    IF ~Truthy(description) \/ account_id = None THEN NoDescRule
    ELSE LET matching == {r \in desc_rules :
                             _wildcard_to_regex(r.description_pattern,
                                                Lower(Strip(description)))}
         IN  IF matching = {} THEN NoDescRule
             ELSE CHOOSE r \in matching :
                      \A q \in matching : q.created_at <= r.created_at

\* DescRuleService.find_matching_rule
desc_find_matching_rule(description, account_id) ==
    IF ~Truthy(description) \/ account_id = None THEN NoDescRule
    ELSE LET ofAccount == {r \in desc_rules : r.account_id = account_id}
             scanned == {r \in ofAccount :
                            Cardinality({q \in ofAccount : q.created_at > r.created_at})
                                < RuleScanLimit}
             matching == {r \in scanned :
                             _wildcard_to_regex(r.description_pattern,
                                                Lower(Strip(description)))}
         IN  IF matching = {} THEN NoDescRule
             ELSE CHOOSE r \in matching :
                      \A q \in matching : q.created_at <= r.created_at

\* str(uuid.uuid4()): an id that no row of the table holds
FreshId(table) ==
    IF table = {} THEN 1
    ELSE 1 + (CHOOSE m \in {r.id : r \in table} : \A r \in table : r.id <= m)

\* variant: the UPDATE of an existing rule leaves created_at as it was
create_rule_keepCreatedAt(merchant_pattern, category_id) ==
    LET normalized_pattern == Lower(Strip(merchant_pattern))
        existing == {r \in rules : r.merchant_pattern = normalized_pattern}
    IN  IF existing # {}
        THEN {IF r \in existing
              THEN [r EXCEPT !.category_id = category_id]
              ELSE r : r \in rules}
        ELSE rules \cup {[id |-> FreshId(rules), merchant_pattern |-> normalized_pattern,
                          category_id |-> category_id, created_at |-> now]}

\* RuleService.create_rule: upsert on the lowercased, stripped pattern
create_rule(merchant_pattern, category_id) ==
    LET normalized_pattern == Lower(Strip(merchant_pattern))
        existing == {r \in rules : r.merchant_pattern = normalized_pattern}
    IN  IF existing # {}
        THEN {IF r \in existing
              THEN [r EXCEPT !.category_id = category_id, !.created_at = now]
              ELSE r : r \in rules}
        ELSE rules \cup {[id |-> FreshId(rules), merchant_pattern |-> normalized_pattern,
                          category_id |-> category_id, created_at |-> now]}

\* models.categorization.DescriptionPatternRuleCreate declares the fields
\* description_pattern, account_id and category_id only
DescRuleCreateFields == {"description_pattern", "account_id", "category_id"}

\* variant: the request model carries a source, so that the upsert is reached
desc_create_rule_withSource(description_pattern, account_id, category_id) ==
    LET normalized_pattern == Lower(Strip(description_pattern))
        existing == {r \in desc_rules : /\ r.account_id = account_id
                                        /\ r.description_pattern = normalized_pattern}
    IN  IF existing # {}
        THEN [raised |-> FALSE,
              table |-> {IF r \in existing
                         THEN [r EXCEPT !.category_id = category_id,
                                        !.created_at = now, !.source = "manual"]
                         ELSE r : r \in desc_rules}]
        ELSE [raised |-> FALSE,
              table |-> desc_rules \cup
                 {[id |-> FreshId(desc_rules), account_id |-> account_id,
                   description_pattern |-> normalized_pattern,
                   category_id |-> category_id, created_at |-> now,
                   source |-> "manual"]}]

\* DescRuleService.create_rule: upsert on (account_id, lowercased pattern).
\* The method reads data.source before it touches the table; the request
\* model has no such attribute, so the read raises AttributeError and the
\* table is left as it was.
desc_create_rule(description_pattern, account_id, category_id) ==
    LET normalized_pattern == Lower(Strip(description_pattern))
        existing == {r \in desc_rules : /\ r.account_id = account_id
                                        /\ r.description_pattern = normalized_pattern}
    IN  IF "source" \notin DescRuleCreateFields
        THEN [raised |-> TRUE, table |-> desc_rules]
        ELSE IF existing # {}
        THEN [raised |-> FALSE,
              table |-> {IF r \in existing
                         THEN [r EXCEPT !.category_id = category_id,
                                        !.created_at = now, !.source = "manual"]
                         ELSE r : r \in desc_rules}]
        ELSE [raised |-> FALSE,
              table |-> desc_rules \cup
                 {[id |-> FreshId(desc_rules), account_id |-> account_id,
                   description_pattern |-> normalized_pattern,
                   category_id |-> category_id, created_at |-> now,
                   source |-> "manual"]}]

CategoryGroups == {"Essential", "Lifestyle", "Income", "Transfer", "Other"}

\* variant: the lookup compares the names as they are written
find_by_name_exact(cats, name) ==
    LET same == {c \in cats : c.name = name}
    IN  IF same = {} THEN NullId
        ELSE (CHOOSE c \in same : \A d \in same : c.id <= d.id).id

\* CategoryService.find_by_name: the id of the first category whose
\* normalized name equals the normalized name, NullId when there is none
find_by_name(cats, name) ==
    LET normalized == _normalize_category_name(name)
        same == {c \in cats : _normalize_category_name(c.name) = normalized}
    IN  IF same = {} THEN NullId
        ELSE (CHOOSE c \in same : \A d \in same : c.id <= d.id).id

\* CategoryService.find_or_create: the table after the call
find_or_create(cats, name, group_name) ==
    IF find_by_name(cats, name) # NullId THEN cats
    ELSE cats \cup {[id |-> FreshId(cats), name |-> name,
                     group_name |-> IF group_name \in CategoryGroups
                                    THEN group_name ELSE "Other"]}

(***************************************************************************)
(* gemini_client.with_retry.  An attempt of invoke_gemini ends in one of    *)
(* the classes below: "ok", or the error it raises after classification.    *)
(***************************************************************************)
AttemptOutcomes ==
    {"ok", "timeout", "rate_limit", "auth", "not_configured", "invalid",
     "empty_response", "unexpected"}

\* variant: an invalid request is not re-raised at once
NonRetryable_authOnly == {"auth", "not_configured"}

\* AIInvocationError messages for which with_retry re-raises at once
NonRetryable == {"auth", "not_configured", "invalid"}

CATEGORIZATION_RETRY_DELAYS == <<2, 4, 8>>

\* variant: the same delay before every retry
RetryDelay_constant(attempt) == CATEGORIZATION_RETRY_DELAYS[1]

\* lines 161 and 186: the delay slept after the failed attempt (counted from 0)
RetryDelay(attempt) ==
    LET delays == SubSeq(CATEGORIZATION_RETRY_DELAYS, 1,
                         IF CATEGORIZATION_MAX_RETRIES < Len(CATEGORIZATION_RETRY_DELAYS)
                         THEN CATEGORIZATION_MAX_RETRIES
                         ELSE Len(CATEGORIZATION_RETRY_DELAYS))
    IN  IF attempt < Len(delays) THEN delays[attempt + 1] ELSE delays[Len(delays)]

\* outcomes[k] is the outcome of the k-th call of func; the result holds what
\* with_retry returns or raises, the number of calls made and the sleeps
RECURSIVE RetryLoop(_, _, _)
RetryLoop(outcomes, attempt, slept) ==
    LET outcome == outcomes[attempt + 1]
    IN  IF outcome = "ok" \/ outcome \in NonRetryable
        THEN [result |-> outcome, calls |-> attempt + 1, sleeps |-> slept]
        ELSE IF attempt < CATEGORIZATION_MAX_RETRIES
             THEN RetryLoop(outcomes, attempt + 1, Append(slept, RetryDelay(attempt)))
             ELSE [result |-> outcome, calls |-> attempt + 1, sleeps |-> slept]

with_retry(outcomes) == RetryLoop(outcomes, 0, <<>>)

\* classify_batch lines 240-244: invoke_and_parse raised an AIClientError,
\* classify_batch returns []
RaisesAIClientError(response) == response.result # "ok"

\* the provider behaves the same way on every attempt of one call, or fails
\* once with a timeout and then answers
ProviderBehaviours ==
    {[k \in 1..(CATEGORIZATION_MAX_RETRIES + 1) |-> o] : o \in AttemptOutcomes}
        \cup {[k \in 1..(CATEGORIZATION_MAX_RETRIES + 1) |->
                  IF k = 1 THEN "timeout" ELSE "ok"]}

(***************************************************************************)
(* Frames and records of the orchestrator.                                  *)
(***************************************************************************)
\* request.batch_size: 0 is None, the other values stand for 10..200
BatchSizeOverrides == {0, 1}

\* request.transaction_ids of the synchronous entry point: {} is None
IdFilters == {{}, 1..(NumTx - 1)}

BatchJobState(batch_id, total) ==
    [batch_id |-> batch_id, status |-> "running", total_transactions |-> total,
     processed_transactions |-> 0, success_count |-> 0, failure_count |-> 0,
     skipped_count |-> 0, rule_match_count |-> 0, desc_rule_match_count |-> 0,
     ai_match_count |-> 0, error_message |-> None, completed_at |-> 0]

\* batch_service.create_batch: the inserted row; completions counts the
\* calls of complete_batch that wrote the row
create_batch(transaction_count) ==
    [transaction_count |-> transaction_count, success_count |-> 0,
     failure_count |-> 0, rule_match_count |-> 0, desc_rule_match_count |-> 0,
     ai_match_count |-> 0, skipped_count |-> 0, error_message |-> None,
     completed_at |-> 0, completions |-> 0]

\* the local variables of one run: of _run_classification (kind "sync") or
\* of _run_background_classification (kind "background"), with those of
\* _apply_rules, _process_ai_batches and apply_unified_results; drawn counts
\* the result items the provider returned to the run so far and rule_matched
\* holds the ids the merchant pass matched
RunFrame(kind, txs, force_ai, batch_size) ==
    [kind |-> kind, pc |-> "start", force_ai |-> force_ai, batch_size |-> batch_size,
     transactions |-> txs, total_count |-> Len(txs),
     i |-> 1, remaining |-> <<>>, match_count |-> 0,
     desc_remaining |-> <<>>, desc_match_count |-> 0,
     processable |-> <<>>, results |-> 0, category_cache |-> <<>>,
     success |-> 0, skipped |-> 0, created |-> 0,
     success_total |-> 0, skipped_total |-> 0, failure_total |-> 0,
     categories_created_total |-> 0,
     success_count |-> 0, failure_count |-> 0, rule_match_count |-> 0,
     desc_rule_match_count |-> 0, ai_match_count |-> 0, skipped_count |-> 0,
     categories_created_count |-> 0, error_message |-> None,
     drawn |-> 0, rule_matched |-> {}]

NextBatchId == Len(batches) + 1

(***************************************************************************)
(* trigger_batch_classification, called by thread t.                        *)
(***************************************************************************)
\* variant: the check for a running job finds none
HasRunningJob_none == FALSE

\* lines 404-407: some job of the registry has status "running"
HasRunningJob ==
    \E b \in DOMAIN _active_jobs : _active_jobs[b].status = "running"

\* lines 398-407: the credentials check and the check for a running job,
\* made while holding _job_lock; every thread makes one call
TriggerCheck(t) ==
    /\ t \in DOMAIN call
    /\ call[t].pc = "idle"
    /\ call[t].outcome = None
    /\ \E force_ai \in BOOLEAN, batch_size \in BatchSizeOverrides :
          call' = [call EXCEPT ![t] =
              IF ~GEMINI_API_KEY
              THEN [IdleCall EXCEPT !.outcome = "ValueError"]
              ELSE IF HasRunningJob
              THEN [IdleCall EXCEPT !.outcome = "RuntimeError"]
              ELSE [IdleCall EXCEPT !.pc = "checked", !.force_ai = force_ai,
                                    !.batch_size = batch_size]]
    /\ UNCHANGED <<stmt, GEMINI_API_KEY, transactions, categories, rules, desc_rules,
                   batches, _active_jobs, run, now, edits, prompts>>

\* lines 409-432: candidate selection and creation of the batch row
TriggerSelect(t) ==
    /\ t \in DOMAIN call
    /\ call[t].pc = "checked"
    /\ LET txs == get_unclassified_transactions({}, NullId)
       IN  IF Len(txs) = 0
           THEN /\ call' = [call EXCEPT ![t] = [IdleCall EXCEPT !.outcome = "completed"]]
                /\ UNCHANGED batches
           ELSE /\ call' = [call EXCEPT ![t].pc = "created", ![t].transactions = txs,
                                        ![t].batch_id = NextBatchId]
                /\ batches' = Append(batches, create_batch(Len(txs)))
    /\ UNCHANGED <<stmt, GEMINI_API_KEY, transactions, categories, rules, desc_rules,
                   _active_jobs, run, now, edits, prompts>>

\* lines 434-456: registration of the job under _job_lock and start of the
\* worker thread
TriggerRegister(t) ==
    /\ t \in DOMAIN call
    /\ call[t].pc = "created"
    /\ LET b == call[t].batch_id
       IN  /\ _active_jobs' =
                  (b :> BatchJobState(b, Len(call[t].transactions))) @@ _active_jobs
           /\ run' = (b :> RunFrame("background", call[t].transactions,
                                    call[t].force_ai, call[t].batch_size)) @@ run
           /\ prompts' = (b :> {}) @@ prompts
    /\ call' = [call EXCEPT ![t] = [IdleCall EXCEPT !.outcome = "running"]]
    /\ UNCHANGED <<stmt, GEMINI_API_KEY, transactions, categories, rules, desc_rules,
                   batches, now, edits>>

(***************************************************************************)
(* trigger_categorization / _run_classification, lines 549-588: candidate   *)
(* selection and creation of the batch row of a synchronous run.            *)
(***************************************************************************)
SyncStart ==
    /\ NextBatchId \in BatchIds
    /\ \E force_ai \in BOOLEAN, transaction_ids \in IdFilters :
          LET txs == get_unclassified_transactions(transaction_ids, DefaultLimit)
          IN  /\ Len(txs) > 0
              /\ batches' = Append(batches, create_batch(Len(txs)))
              /\ run' = (NextBatchId :> RunFrame("sync", txs, force_ai, 0)) @@ run
              /\ prompts' = (NextBatchId :> {}) @@ prompts
    /\ UNCHANGED <<stmt, GEMINI_API_KEY, transactions, categories, rules, desc_rules,
                   _active_jobs, call, now, edits>>

(***************************************************************************)
(* The steps of a run b, shared by _run_background_classification and       *)
(* _run_classification.                                                     *)
(***************************************************************************)
IsBackground(b) == run[b].kind = "background"

Uncategorized(f) == SelectSeq(f.transactions, LAMBDA tx : tx.category_id = NullId)

AlreadyCategorized(f) == SelectSeq(f.transactions, LAMBDA tx : tx.category_id # NullId)

\* lines 498-502 and 599-602: the bookkeeping after _apply_rules returned
\* (remaining, rule_matches, desc_rule_matches)
AfterRulesFrame(f, remaining, rule_matches, desc_rule_matches) ==
    IF f.kind = "background"
    THEN [f EXCEPT !.pc = "filter", !.remaining = remaining]
    ELSE [f EXCEPT !.pc = "filter", !.remaining = remaining,
                   !.rule_match_count = rule_matches,
                   !.desc_rule_match_count = desc_rule_matches,
                   !.success_count = @ + rule_matches + desc_rule_matches]

AfterRulesJob(job, rule_matches, desc_rule_matches) ==
    [job EXCEPT !.rule_match_count = rule_matches,
                !.desc_rule_match_count = desc_rule_matches,
                !.success_count = @ + rule_matches + desc_rule_matches,
                !.processed_transactions = @ + rule_matches + desc_rule_matches]

\* lines 490-497 and 590-598: get_all_categories and the partition of the
\* candidates; the cascade is entered unless force_ai
RunBegin(b) ==
    /\ b \in DOMAIN run
    /\ run[b].pc = "start"
    /\ run' = [run EXCEPT ![b] =
          IF ~run[b].force_ai /\ Uncategorized(run[b]) # <<>>
          THEN [@ EXCEPT !.pc = "merchant", !.i = 1]
          ELSE [@ EXCEPT !.pc = "filter", !.remaining = Uncategorized(run[b])]]
    /\ UNCHANGED <<stmt, GEMINI_API_KEY, transactions, categories, rules, desc_rules,
                   batches, _active_jobs, call, now, edits, prompts>>

\* apply_categorization_results for one rule result: lines 361-372
apply_categorization_result(table, transaction_id, category_id, confidence, source) ==
    safe_update_transaction(table, transaction_id,
        [category_id |-> category_id, confidence_score |-> confidence,
         categorization_source |-> source])

\* variant: a matched transaction stays in the queue of the later passes
MerchantRemaining_all(remaining, tx, matched) == Append(remaining, tx)

\* lines 699-715: a matched transaction is applied and skipped by continue,
\* an unmatched one is appended to remaining
MerchantRemaining(remaining, tx, matched) ==
    IF matched THEN remaining ELSE Append(remaining, tx)

\* _apply_rules, first pass (lines 695-715), one transaction per step
MerchantStep(b) ==
    /\ b \in DOMAIN run
    /\ run[b].pc = "merchant"
    /\ LET f == run[b]
           tx == Uncategorized(f)[f.i]
           rule == find_matching_rule(tx.normalized_merchant)
           matched == Truthy(tx.normalized_merchant) /\ rule.id # NullId
           remaining == MerchantRemaining(f.remaining, tx, matched)
           match_count == IF matched THEN f.match_count + 1 ELSE f.match_count
           rule_matched == IF matched THEN f.rule_matched \cup {tx.id} ELSE f.rule_matched
           last == f.i = Len(Uncategorized(f))
       IN  /\ transactions' =
                  IF matched
                  THEN apply_categorization_result(transactions, tx.id,
                                                   rule.category_id, 100, "rule")
                  ELSE transactions
           /\ IF last /\ remaining = <<>>
              THEN /\ run' = [run EXCEPT ![b] =
                          AfterRulesFrame([f EXCEPT !.match_count = match_count,
                                                    !.rule_matched = rule_matched],
                                          <<>>, match_count, 0)]
                   /\ _active_jobs' =
                          IF IsBackground(b)
                          THEN [_active_jobs EXCEPT ![b] = AfterRulesJob(@, match_count, 0)]
                          ELSE _active_jobs
              ELSE /\ run' = [run EXCEPT ![b] =
                          [f EXCEPT !.remaining = remaining,
                                    !.match_count = match_count,
                                    !.rule_matched = rule_matched,
                                    !.i = IF last THEN 1 ELSE f.i + 1,
                                    !.pc = IF last THEN "desc" ELSE "merchant"]]
                   /\ UNCHANGED _active_jobs
    /\ UNCHANGED <<stmt, GEMINI_API_KEY, categories, rules, desc_rules, batches, call,
                   now, edits, prompts>>

\* _apply_rules, second pass (lines 718-744), one transaction per step
DescStep(b) ==
    /\ b \in DOMAIN run
    /\ run[b].pc = "desc"
    /\ LET f == run[b]
           tx == f.remaining[f.i]
           tried == Truthy(tx.description) /\ tx.account_id # None
           desc_rule == desc_find_matching_rule(tx.description, tx.account_id)
           matched == tried /\ desc_rule.id # NullId
           desc_remaining == IF matched THEN f.desc_remaining
                             ELSE Append(f.desc_remaining, tx)
           desc_match_count == IF matched THEN f.desc_match_count + 1
                               ELSE f.desc_match_count
           last == f.i = Len(f.remaining)
       IN  /\ transactions' =
                  IF matched
                  THEN apply_categorization_result(transactions, tx.id,
                                                   desc_rule.category_id, 100, "desc_rule")
                  ELSE transactions
           /\ IF last
              THEN /\ run' = [run EXCEPT ![b] =
                          AfterRulesFrame([f EXCEPT !.desc_remaining = desc_remaining,
                                                    !.desc_match_count = desc_match_count],
                                          desc_remaining, f.match_count, desc_match_count)]
                   /\ _active_jobs' =
                          IF IsBackground(b)
                          THEN [_active_jobs EXCEPT ![b] =
                                   AfterRulesJob(@, f.match_count, desc_match_count)]
                          ELSE _active_jobs
              ELSE /\ run' = [run EXCEPT ![b] =
                          [f EXCEPT !.desc_remaining = desc_remaining,
                                    !.desc_match_count = desc_match_count,
                                    !.i = f.i + 1]]
                   /\ UNCHANGED _active_jobs
    /\ UNCHANGED <<stmt, GEMINI_API_KEY, categories, rules, desc_rules, batches, call,
                   now, edits, prompts>>

\* the description _process_ai_batches tests for emptiness (line 773)
HasEmptyDescription(tx) ==
    LET description == IF Truthy(tx.original_description) THEN tx.original_description
                       ELSE IF Truthy(tx.description) THEN tx.description
                       ELSE <<>>
    IN  Strip(description) = <<>>

\* lines 504-507 / 612-615 and _process_ai_batches lines 763-797: the AI work
\* queue is built and the transactions with an empty description are
\* skipped
FilterStep(b) ==
    /\ b \in DOMAIN run
    /\ run[b].pc = "filter"
    /\ LET f == run[b]
           ai_transactions == f.remaining \o AlreadyCategorized(f)
           processable == SelectSeq(ai_transactions, LAMBDA tx : ~HasEmptyDescription(tx))
           skipped_total == Len(ai_transactions) - Len(processable)
       IN  /\ run' = [run EXCEPT ![b] =
                  [f EXCEPT !.processable = processable,
                            !.skipped_total = skipped_total,
                            !.i = 0,
                            !.pc = IF processable = <<>> THEN "finish" ELSE "batch"]]
           /\ _active_jobs' =
                  IF IsBackground(b)
                  THEN [_active_jobs EXCEPT
                           ![b].skipped_count = @ + skipped_total,
                           ![b].processed_transactions = @ + skipped_total]
                  ELSE _active_jobs
    /\ UNCHANGED <<stmt, GEMINI_API_KEY, transactions, categories, rules, desc_rules,
                   batches, call, now, edits, prompts>>

\* the provider returns at most MaxResults valid result items to one run
MaxResults == 2

\* variant: the override of the request is ignored
BatchSize_default(f) == CATEGORIZATION_BATCH_SIZE

\* line 768
BatchSize(f) == IF f.batch_size # 0 THEN f.batch_size ELSE CATEGORIZATION_BATCH_SIZE

\* transactions[i:i + batch_size], f.i being the offset i of the loop
SubBatch(f) ==
    SubSeq(f.processable, f.i + 1,
           IF f.i + BatchSize(f) < Len(f.processable) THEN f.i + BatchSize(f)
           ELSE Len(f.processable))

SeqIds(txs) == {txs[k].id : k \in 1..Len(txs)}

\* the frame after the sub-batch at offset f.i was dealt with: the loop goes
\* on with the next offset or _process_ai_batches returns
NextSubBatch(f) ==
    [f EXCEPT !.i = f.i + BatchSize(f),
              !.results = 0, !.category_cache = <<>>,
              !.success = 0, !.skipped = 0, !.created = 0,
              !.pc = IF f.i + BatchSize(f) < Len(f.processable) THEN "batch"
                     ELSE "finish"]

\* variant: a sub-batch is reported as one processed transaction
JobProcessed_one(b, n) ==
    IF IsBackground(b)
    THEN [_active_jobs EXCEPT ![b].processed_transactions = @ + 1]
    ELSE _active_jobs

JobProcessed(b, n) ==
    IF IsBackground(b)
    THEN [_active_jobs EXCEPT ![b].processed_transactions = @ + n]
    ELSE _active_jobs

\* variant: a failed sub-batch ends the loop
FailedSubBatch_break(f) ==
    [f EXCEPT !.failure_total = @ + Len(SubBatch(f)), !.pc = "finish"]

\* lines 822-826: no results came back for the sub-batch, which is counted
\* as failed; the loop goes on
FailedSubBatch(f) ==
    NextSubBatch([f EXCEPT !.failure_total = @ + Len(SubBatch(f))])

\* classify_batch (lines 229-244) called at line 807: the prompt is built
\* from the sub-batch and invoke_and_parse is called through with_retry, the
\* provider behaving as behaviour says.  An AIClientError makes
\* classify_batch return [], which line 822 counts as a failed sub-batch.
ClassifyWith(b, behaviour) ==
    /\ b \in DOMAIN run
    /\ run[b].pc = "batch"
    /\ GEMINI_API_KEY <=> (behaviour[1] # "not_configured")
    /\ LET f == run[b]
           sub_batch == SubBatch(f)
           response == with_retry(behaviour)
       IN  /\ prompts' = [prompts EXCEPT ![b] = @ \cup SeqIds(sub_batch)]
           /\ IF ~RaisesAIClientError(response)
              THEN /\ run' = [run EXCEPT ![b].pc = "apply"]
                   /\ UNCHANGED _active_jobs
              ELSE /\ run' = [run EXCEPT ![b] = FailedSubBatch(f)]
                   /\ _active_jobs' = JobProcessed(b, Len(sub_batch))
    /\ UNCHANGED <<stmt, GEMINI_API_KEY, transactions, categories, rules, desc_rules,
                   batches, call, now, edits>>

ClassifyBatch(b) == \E behaviour \in ProviderBehaviours : ClassifyWith(b, behaviour)

\* the items of a provider response, as parsed by extract_json
AIItem(id, name, group, sub, disc, merchant, confidence) ==
    [transaction_id |-> id, category_name |-> name, category_group |-> group,
     subcategory |-> sub, is_discretionary |-> disc,
     normalized_merchant |-> merchant, confidence |-> confidence]

RawItems ==
    UNION {{AIItem(id, NameGasLower, "Essential", SubCoffee, "true", MerchantCd, 95),
            AIItem(id, IF id % 2 = 1 THEN NameTax ELSE NameTaxUpper, "Bogus",
                   NullText, None, NullText, 70),
            AIItem(id, NameTax, "Other", SubCoffee, "true", MerchantCd, 60),
            AIItem(id, <<>>, "Other", NullText, None, NullText, 95)} : id \in TxIds}

\* classify_batch lines 247-268: an item without transaction_id or
\* category_name is dropped
IsValidItem(item) == item.transaction_id # NullId /\ Truthy(item.category_name)

\* tx_category_map.get(transaction_id) of apply_unified_results, line 307
ExistingCategoryId(sub_batch, transaction_id) ==
    IF \E k \in 1..Len(sub_batch) : sub_batch[k].id = transaction_id
    THEN sub_batch[CHOOSE k \in 1..Len(sub_batch) :
                       /\ sub_batch[k].id = transaction_id
                       /\ \A j \in (k + 1)..Len(sub_batch) :
                              sub_batch[j].id # transaction_id].category_id
    ELSE NullId

\* apply_unified_results lines 309-339: the updates of one result
UnifiedUpdates(result, assign, category_id) ==
    (IF assign
     THEN [category_id |-> category_id, confidence_score |-> result.confidence,
           categorization_source |-> "ai"]
     ELSE <<>>)
    @@ (IF result.subcategory # NullText
        THEN [subcategory |-> result.subcategory] ELSE <<>>)
    @@ (IF result.is_discretionary # None
        THEN [is_discretionary |-> result.is_discretionary] ELSE <<>>)
    @@ (IF result.normalized_merchant # NullText
        THEN [normalized_merchant |-> result.normalized_merchant] ELSE <<>>)
    @@ [enrichment_source |-> "ai"]

\* variant: a confidence equal to the threshold is gated as well
BelowThreshold_orEqual(confidence) == confidence <= CATEGORIZATION_CONFIDENCE_THRESHOLD

\* line 299: the confidence gate
BelowThreshold(confidence) == confidence < CATEGORIZATION_CONFIDENCE_THRESHOLD

\* one item of the provider response of the current sub-batch: dropped by
\* classify_batch when invalid, otherwise handled by one iteration of the
\* loop of apply_unified_results (lines 297-343).  The items of a response
\* do not depend on the state, so they are chosen when they are consumed.
ApplyItem(b, item) ==
    /\ b \in DOMAIN run
    /\ run[b].pc = "apply"
    /\ run[b].drawn < MaxResults
    /\ LET f == run[b]
           assign == ExistingCategoryId(SubBatch(f), item.transaction_id) = NullId
           cache_key == _normalize_category_name(item.category_name)
           cached == cache_key \in DOMAIN f.category_cache
           existed == find_by_name(categories, item.category_name) # NullId
           cats == find_or_create(categories, item.category_name, item.category_group)
           category_id == IF cached THEN f.category_cache[cache_key]
                          ELSE find_by_name(cats, item.category_name)
       IN  IF ~IsValidItem(item)
           THEN UNCHANGED <<run, transactions, categories>>
           ELSE IF BelowThreshold(item.confidence)
           THEN /\ run' = [run EXCEPT ![b].results = @ + 1, ![b].skipped = @ + 1,
                                       ![b].drawn = @ + 1]
                /\ UNCHANGED <<transactions, categories>>
           ELSE /\ categories' = IF assign /\ ~cached THEN cats ELSE categories
                /\ transactions' =
                       safe_update_transaction(transactions, item.transaction_id,
                           UnifiedUpdates(item, assign, category_id))
                /\ run' = [run EXCEPT
                       ![b].results = @ + 1,
                       ![b].drawn = @ + 1,
                       ![b].success = @ + 1,
                       ![b].created = IF assign /\ ~cached /\ ~existed
                                      THEN @ + 1 ELSE @,
                       ![b].category_cache =
                           IF assign /\ ~cached
                           THEN (cache_key :> category_id) @@ @ ELSE @]
    /\ UNCHANGED <<stmt, GEMINI_API_KEY, rules, desc_rules, batches, _active_jobs, call,
                   now, edits, prompts>>

ApplyResult(b) == \E item \in RawItems : ApplyItem(b, item)

\* _process_ai_batches lines 809-826: the response is exhausted
ApplyEnd(b) ==
    /\ b \in DOMAIN run
    /\ run[b].pc = "apply"
    /\ LET f == run[b]
           sub_batch == SubBatch(f)
       IN  /\ run' = [run EXCEPT ![b] =
                  IF f.results > 0
                  THEN NextSubBatch(
                           [f EXCEPT !.success_total = @ + f.success,
                                     !.skipped_total = @ + f.skipped,
                                     !.categories_created_total = @ + f.created,
                                     !.failure_total = @ + Len(sub_batch) - f.results])
                  ELSE FailedSubBatch(f)]
           /\ _active_jobs' = JobProcessed(b, Len(sub_batch))
    /\ UNCHANGED <<stmt, GEMINI_API_KEY, transactions, categories, rules, desc_rules,
                   batches, call, now, edits, prompts>>

\* variant: the status of the job is not set when the work is done
FinishedJob_running(job, f) ==
    [job EXCEPT !.ai_match_count = f.success_total,
                !.skipped_count = @ + f.skipped_total,
                !.failure_count = @ + f.failure_total,
                !.success_count = @ + f.success_total]

\* lines 511-517: the job after _process_ai_batches returned
FinishedJob(job, f) ==
    [job EXCEPT !.ai_match_count = f.success_total,
                !.skipped_count = @ + f.skipped_total,
                !.failure_count = @ + f.failure_total,
                !.success_count = @ + f.success_total,
                !.status = "completed",
                !.completed_at = now]

\* lines 511-517 (background) and 625-629 (synchronous): the results of
\* _process_ai_batches are added to the counters; a background job becomes
\* "completed"
RunFinish(b) ==
    /\ b \in DOMAIN run
    /\ run[b].pc = "finish"
    /\ LET f == run[b]
       IN  IF IsBackground(b)
           THEN /\ _active_jobs' = [_active_jobs EXCEPT ![b] = FinishedJob(@, f)]
                /\ run' = [run EXCEPT ![b].pc = "complete"]
           ELSE /\ run' = [run EXCEPT ![b] =
                       [f EXCEPT !.ai_match_count = f.success_total,
                                 !.skipped_count = f.skipped_total,
                                 !.failure_count = f.failure_total,
                                 !.categories_created_count = f.categories_created_total,
                                 !.success_count = @ + f.success_total,
                                 !.pc = "complete"]]
                /\ UNCHANGED _active_jobs
    /\ UNCHANGED <<stmt, GEMINI_API_KEY, transactions, categories, rules, desc_rules,
                   batches, call, now, edits, prompts>>

\* lines 519-526 and 641-651: an exception raised by get_all_categories or
\* by a statement of _apply_rules reaches the handler of the run
RunRaise(b) ==
    /\ b \in DOMAIN run
    /\ run[b].pc \in {"start", "merchant", "desc"}
    /\ IF IsBackground(b)
       THEN /\ _active_jobs' = [_active_jobs EXCEPT ![b] =
                   [@ EXCEPT !.status = "failed",
                             !.error_message = "error",
                             !.failure_count = _active_jobs[b].total_transactions
                                                   - _active_jobs[b].success_count,
                             !.completed_at = now]]
            /\ run' = [run EXCEPT ![b].pc = "complete"]
       ELSE /\ run' = [run EXCEPT ![b] =
                   [@ EXCEPT !.error_message = "error",
                             !.failure_count = run[b].total_count - run[b].success_count,
                             !.pc = "complete"]]
            /\ UNCHANGED _active_jobs
    /\ UNCHANGED <<stmt, GEMINI_API_KEY, transactions, categories, rules, desc_rules,
                   batches, call, now, edits, prompts>>

\* variant: the row is completed without completed_at and error message
complete_batch_partial(row, success_count, failure_count, rule_match_count, desc_rule_match_count, ai_match_count, skipped_count, error_message) ==
    [row EXCEPT !.success_count = success_count,
                !.failure_count = failure_count,
                !.rule_match_count = rule_match_count,
                !.desc_rule_match_count = desc_rule_match_count,
                !.ai_match_count = ai_match_count,
                !.skipped_count = skipped_count,
                !.completions = @ + 1]

\* batch_service.complete_batch (lines 140-185)
complete_batch(row, success_count, failure_count, rule_match_count, desc_rule_match_count, ai_match_count, skipped_count, error_message) ==
    [row EXCEPT !.success_count = success_count,
                !.failure_count = failure_count,
                !.rule_match_count = rule_match_count,
                !.desc_rule_match_count = desc_rule_match_count,
                !.ai_match_count = ai_match_count,
                !.skipped_count = skipped_count,
                !.error_message = error_message,
                !.completed_at = now,
                !.completions = @ + 1]

\* the frame of a run that returned: of the locals, only the counters of the
\* response built by _create_batch_response (lines 665-677) remain
Returned(f) ==
    [RunFrame(f.kind, <<>>, f.force_ai, f.batch_size) EXCEPT
        !.pc = "done",
        !.total_count = f.total_count,
        !.success_count = f.success_count,
        !.failure_count = f.failure_count,
        !.rule_match_count = f.rule_match_count,
        !.desc_rule_match_count = f.desc_rule_match_count,
        !.ai_match_count = f.ai_match_count,
        !.skipped_count = f.skipped_count,
        !.categories_created_count = f.categories_created_count,
        !.error_message = f.error_message]

\* lines 528-538 and 653-663: the final counters are persisted
CompleteBatch(b) ==
    /\ b \in DOMAIN run
    /\ run[b].pc = "complete"
    /\ LET c == IF IsBackground(b) THEN _active_jobs[b] ELSE run[b]
       IN  batches' = [batches EXCEPT ![b] =
               complete_batch(@, c.success_count, c.failure_count, c.rule_match_count,
                              c.desc_rule_match_count, c.ai_match_count,
                              c.skipped_count, c.error_message)]
    /\ run' = [run EXCEPT ![b] = Returned(@)]
    /\ UNCHANGED <<stmt, GEMINI_API_KEY, transactions, categories, rules, desc_rules,
                   _active_jobs, call, now, edits, prompts>>

(***************************************************************************)
(* TransactionService.update: a manual edit of one transaction.             *)
(***************************************************************************)
\* the request bodies modelled: a category is assigned, or only the notes
\* are edited (category_id 0: the field is not in model_fields_set)
ManualEdits == {[category_id |-> c] : c \in {0, 1}}

\* the transactions the user edits
EditedIds == {1}

\* lines 336-344 with _create_rule_from_correction and
\* _create_desc_rule_from_correction: the rule tables after the correction;
\* both helpers swallow the exceptions of the rule services
RulesAfterCorrection(existing, category_changed, new_category_id) ==
    IF category_changed /\ new_category_id # NullId
           /\ Truthy(existing.normalized_merchant)
    THEN [rules |-> create_rule(existing.normalized_merchant, new_category_id),
          desc_rules |-> desc_rules]
    ELSE IF category_changed /\ new_category_id # NullId
                /\ Truthy(existing.description)
                /\ Strip(existing.description) # <<>>
                /\ extract_pattern(existing.description) # <<>>
         THEN [rules |-> rules,
               desc_rules |-> desc_create_rule(extract_pattern(existing.description),
                                               existing.account_id,
                                               new_category_id).table]
         ELSE [rules |-> rules, desc_rules |-> desc_rules]

\* lines 257-346: the row is rewritten with the columns update lists (the
\* columns it does not list take their default), then a rule is learned; at
\* most MaxEdits edits change a category, and the clock advances with them
ManualUpdate(transaction_id, data) ==
    /\ transaction_id \in DOMAIN transactions
    /\ LET existing == transactions[transaction_id]
           category_set == data.category_id # 0
           category_changed == category_set /\ data.category_id # existing.category_id
           updated == [existing EXCEPT
                          !.category_id = IF category_set THEN data.category_id ELSE @,
                          !.categorization_source =
                              IF category_changed THEN "manual" ELSE @]
           learned == RulesAfterCorrection(existing, category_changed, data.category_id)
       IN  /\ transactions' = [transactions EXCEPT ![transaction_id] =
                  [c \in DOMAIN existing |->
                      IF c \in UpdateColumns THEN updated[c] ELSE ColumnDefault(c)]]
           /\ rules' = learned.rules
           /\ desc_rules' = learned.desc_rules
           /\ category_changed => edits < MaxEdits
           /\ now' = IF category_changed THEN now + 1 ELSE now
           /\ edits' = IF category_changed THEN edits + 1 ELSE edits
    /\ UNCHANGED <<stmt, GEMINI_API_KEY, categories, batches, _active_jobs, call, run,
                   prompts>>

(***************************************************************************)
(* Specification.                                                           *)
(***************************************************************************)
\* the steps a scheduled run takes when its current statement returns; the
\* result items of the provider and the exceptions are inputs of the run
Worker(b) ==
    \/ RunBegin(b)
    \/ MerchantStep(b)
    \/ DescStep(b)
    \/ FilterStep(b)
    \/ ClassifyBatch(b)
    \/ ApplyEnd(b)
    \/ RunFinish(b)
    \/ CompleteBatch(b)

\* no run has been started and no call is in progress
FirstRun == batches = <<>> /\ \A t \in DOMAIN call : call[t].pc = "idle"

\* the route handlers are coroutines without an await (routers/*.py): the
\* event loop runs one of them at a time, so a manual edit is handled when
\* no call of trigger_batch_classification and no synchronous run is under
\* way; the background worker is a thread of its own
LoopIdle ==
    /\ \A t \in DOMAIN call : call[t].pc = "idle"
    /\ \A b \in DOMAIN run : run[b].kind = "sync" => run[b].pc = "done"

\* the application as served: one run, started by either entry point, and
\* manual edits between the handlers and at any moment of a background run
Next ==
    \/ FirstRun /\ \E t \in Threads : TriggerCheck(t)
    \/ \E t \in Threads : TriggerSelect(t)
    \/ \E t \in Threads : TriggerRegister(t)
    \/ FirstRun /\ SyncStart
    \/ \E b \in BatchIds : RunBegin(b)
    \/ \E b \in BatchIds : MerchantStep(b)
    \/ \E b \in BatchIds : DescStep(b)
    \/ \E b \in BatchIds : FilterStep(b)
    \/ \E b \in BatchIds : ClassifyBatch(b)
    \/ \E b \in BatchIds : ApplyResult(b)
    \/ \E b \in BatchIds : ApplyEnd(b)
    \/ \E b \in BatchIds : RunFinish(b)
    \/ \E b \in BatchIds : RunRaise(b)
    \/ \E b \in BatchIds : CompleteBatch(b)
    \/ LoopIdle /\ \E id \in EditedIds, data \in ManualEdits : ManualUpdate(id, data)

Spec == Init /\ [][Next]_vars

\* the provider answers every attempt
Answering == [k \in 1..(CATEGORIZATION_MAX_RETRIES + 1) |-> "ok"]

\* concurrent calls of trigger_batch_classification and the background
\* workers they start, in every interleaving; the provider answers every
\* call, without result items
NextJobs ==
    \/ \E t \in Threads : TriggerCheck(t)
    \/ \E t \in Threads : TriggerSelect(t)
    \/ \E t \in Threads : TriggerRegister(t)
    \/ \E b \in BatchIds : RunBegin(b)
    \/ \E b \in BatchIds : MerchantStep(b)
    \/ \E b \in BatchIds : DescStep(b)
    \/ \E b \in BatchIds : FilterStep(b)
    \/ \E b \in BatchIds : ClassifyWith(b, Answering)
    \/ \E b \in BatchIds : ApplyEnd(b)
    \/ \E b \in BatchIds : RunFinish(b)
    \/ \E b \in BatchIds : RunRaise(b)
    \/ \E b \in BatchIds : CompleteBatch(b)

SpecJobs == InitJobs /\ [][NextJobs]_vars

\* a started worker thread is scheduled until it returns
FairJobs == SpecJobs /\ \A b \in BatchIds : WF_vars(Worker(b))

(***************************************************************************)
(* The single-job guard of trigger_batch_classification.                    *)
(***************************************************************************)
RunningJobs == {b \in DOMAIN _active_jobs : _active_jobs[b].status = "running"}

\* C1: under every interleaving of concurrent calls of
\* trigger_batch_classification (credentials configured, a candidate for
\* each), the registry never holds two jobs with status "running", that is,
\* no second worker is started while a job is running
C1_SingleRunningJob == Cardinality(RunningJobs) <= 1

CategoryFields == {"category_id", "confidence_score", "categorization_source"}

EnrichmentFields == {"subcategory", "is_discretionary", "normalized_merchant"}

\* C3: once a transaction has categorization_source "manual" and a
\* category_id, no step of a classification run (a step that advances the
\* frame of a run) changes its category_id, confidence_score or
\* categorization_source, in every interleaving of manual corrections with
\* runs
C3_ManualCategoryKept ==
    [][\A id \in DOMAIN transactions :
          (/\ transactions[id].categorization_source = "manual"
           /\ transactions[id].category_id # NullId
           /\ run' # run)
          => \A c \in CategoryFields : transactions'[id][c] = transactions[id][c]]_vars

(***************************************************************************)
(* apply_unified_results.                                                   *)
(***************************************************************************)
\* C4: a valid AI result with confidence strictly below the threshold
\* changes no transaction and no category and adds exactly 1 to skipped; a
\* result whose confidence is the threshold or more is applied (counted as a
\* success, its transaction marked enrichment_source "ai")
C4_ConfidenceGate ==
    [][\A b \in DOMAIN run, item \in RawItems :
          (run[b].pc = "apply" /\ IsValidItem(item) /\ ApplyItem(b, item))
          => IF item.confidence < CATEGORIZATION_CONFIDENCE_THRESHOLD
             THEN /\ transactions' = transactions
                  /\ categories' = categories
                  /\ run'[b].skipped = run[b].skipped + 1
                  /\ run'[b].success = run[b].success
             ELSE /\ run'[b].skipped = run[b].skipped
                  /\ run'[b].success = run[b].success + 1
                  /\ transactions'[item.transaction_id].enrichment_source = "ai"]_vars

\* one result of a response was skipped and one with a confidence equal to
\* the threshold was applied
C4_Witness ==
    \E b \in DOMAIN run :
        /\ run[b].skipped = 1
        /\ run[b].success = 1
        /\ \E id \in DOMAIN transactions :
               /\ transactions[id].confidence_score = CATEGORIZATION_CONFIDENCE_THRESHOLD
               /\ transactions[id].categorization_source = "ai"

\* C5: an AI result with sufficient confidence applied to a transaction
\* that carries a category_id leaves category_id, confidence_score and
\* categorization_source as they are and writes only the enrichment fields
\* present in the result and enrichment_source "ai"
C5_CategoryKeptByEnrichment ==
    [][\A b \in DOMAIN run, item \in RawItems :
          (/\ run[b].pc = "apply"
           /\ IsValidItem(item)
           /\ item.confidence >= CATEGORIZATION_CONFIDENCE_THRESHOLD
           /\ transactions[item.transaction_id].category_id # NullId
           /\ ApplyItem(b, item))
          => LET old == transactions[item.transaction_id]
                 new == transactions'[item.transaction_id]
             IN  /\ \A c \in CategoryFields : new[c] = old[c]
                 /\ new.enrichment_source = "ai"
                 /\ new.subcategory = IF item.subcategory # NullText
                                      THEN item.subcategory ELSE old.subcategory
                 /\ new.is_discretionary = IF item.is_discretionary # None
                                           THEN item.is_discretionary
                                           ELSE old.is_discretionary
                 /\ new.normalized_merchant = IF item.normalized_merchant # NullText
                                              THEN item.normalized_merchant
                                              ELSE old.normalized_merchant
                 /\ \A c \in DOMAIN old \ (CategoryFields \cup EnrichmentFields
                                                \cup {"enrichment_source"}) :
                        new[c] = old[c]]_vars

(***************************************************************************)
(* _process_ai_batches.                                                     *)
(***************************************************************************)
\* C6: when the provider call of a sub-batch fails, exactly the
\* transactions of that sub-batch are counted as failed, no transaction is
\* modified, the loop goes on with the next sub-batch if there is one, and
\* the run does not end with an error because of it
C6_FailedSubBatchIsolated ==
    [][/\ \A b \in DOMAIN run, behaviour \in ProviderBehaviours :
             (/\ run[b].pc = "batch"
              /\ with_retry(behaviour).result # "ok"
              /\ ClassifyWith(b, behaviour))
             => LET f == run[b]
                    g == run'[b]
                    more == f.i + BatchSize(f) < Len(f.processable)
                IN  /\ g.failure_total = f.failure_total + Len(SubBatch(f))
                    /\ g.success_total = f.success_total
                    /\ g.skipped_total = f.skipped_total
                    /\ transactions' = transactions
                    /\ categories' = categories
                    /\ g.processable = f.processable
                    /\ g.i = f.i + BatchSize(f)
                    /\ g.pc = IF more THEN "batch" ELSE "finish"
       /\ \A b \in DOMAIN run :
             run[b].failure_total > 0
             => /\ run'[b].error_message = None
                /\ IsBackground(b) => _active_jobs'[b].status # "failed"]_vars

\* the loop is at a later sub-batch after a sub-batch was counted as failed
C6_Witness ==
    \E b \in DOMAIN run :
        /\ run[b].pc = "batch"
        /\ run[b].i > 0
        /\ run[b].failure_total = run[b].i
        /\ prompts[b] # {}

(***************************************************************************)
(* Background run against synchronous run.                                  *)
(***************************************************************************)
\* _run_classification lines 599-602 and 625-629: the counters the
\* synchronous algorithm derives from what _apply_rules and
\* _process_ai_batches returned
SyncCounters(f) ==
    [success_count |-> f.match_count + f.desc_match_count + f.success_total,
     failure_count |-> f.failure_total,
     skipped_count |-> f.skipped_total,
     rule_match_count |-> f.match_count,
     desc_rule_match_count |-> f.desc_match_count,
     ai_match_count |-> f.success_total]

\* C7: a run that ends without exception, background or synchronous,
\* persists on its batch record the counters the synchronous algorithm
\* derives from the same rule matches and AI results
C7_BackgroundEqualsSync ==
    [][\A b \in DOMAIN run :
          (/\ run[b].pc = "complete"
           /\ run'[b].pc = "done"
           /\ batches'[b].error_message = None)
          => \A c \in DOMAIN SyncCounters(run[b]) :
                 batches'[b][c] = SyncCounters(run[b])[c]]_vars

(***************************************************************************)
(* Finalization of the batch record and of the job.                         *)
(***************************************************************************)
CounterFields ==
    {"success_count", "failure_count", "skipped_count", "rule_match_count",
     "desc_rule_match_count", "ai_match_count"}

\* the counters and the error message a returned run ended with: those of
\* the job for a background run, those of the response for a synchronous one
FinalCounters(b) == IF IsBackground(b) THEN _active_jobs[b] ELSE run[b]

\* the batch row b was completed exactly once, with the final counters, the
\* error message and completed_at
FinalizedOnce(b) ==
    /\ batches[b].completions = 1
    /\ batches[b].completed_at # 0
    /\ \A c \in CounterFields \cup {"error_message"} :
           batches[b][c] = FinalCounters(b)[c]

\* C8: a batch row is completed at most once; when the run that created it
\* has returned, on the normal or on the exception path, the row was
\* completed exactly once, with the final counters, the error message if any
\* and completed_at; a completed row is not written afterwards
C8_FinalizedExactlyOnce ==
    /\ [](\A b \in DOMAIN batches :
            /\ batches[b].completions <= 1
            /\ batches[b].completions = 1 => b \in DOMAIN run /\ run[b].pc = "done"
            /\ (b \in DOMAIN run /\ run[b].pc = "done") => FinalizedOnce(b))
    /\ [][\A b \in DOMAIN batches :
             batches[b].completions = 1 => batches'[b] = batches[b]]_vars

\* a run that hit an exception completed its batch row
C8_Witness ==
    \E b \in DOMAIN run :
        /\ run[b].pc = "done"
        /\ FinalizedOnce(b)
        /\ batches[b].error_message = "error"
        /\ batches[b].failure_count > 0

\* C9: every registered job eventually leaves "running" for "completed" or
\* "failed"; a job is never removed, its status changes only from "running"
\* to "completed" or "failed", and a terminal status never changes
C9_JobsTerminate ==
    /\ \A b \in BatchIds :
           (b \in DOMAIN _active_jobs /\ _active_jobs[b].status = "running")
               ~> (/\ b \in DOMAIN _active_jobs
                   /\ _active_jobs[b].status \in {"completed", "failed"})
    /\ [][\A b \in DOMAIN _active_jobs :
             /\ b \in DOMAIN _active_jobs'
             /\ _active_jobs'[b].status # _active_jobs[b].status
                    => /\ _active_jobs[b].status = "running"
                       /\ _active_jobs'[b].status \in {"completed", "failed"}]_vars

\* a job finished its work and is "completed", its worker has returned
C9_Witness ==
    \E b \in DOMAIN _active_jobs :
        /\ _active_jobs[b].status = "completed"
        /\ _active_jobs[b].processed_transactions > 0
        /\ run[b].pc = "done"

(***************************************************************************)
(* The rule cascade.                                                        *)
(***************************************************************************)
\* the merchant rules whose pattern is contained in the lowercased merchant
MatchingRules(normalized_merchant) ==
    {r \in rules : Contains(r.merchant_pattern, Lower(normalized_merchant))}

\* C10: in a run with force_ai false, an uncategorized candidate whose
\* normalized_merchant contains the pattern of a merchant rule gets the
\* category of such a rule with source "rule" and confidence 1.0; it is not
\* handed to the description pass (which tries only what the merchant pass
\* left unmatched) and is in no provider prompt of the run
C10_MerchantRuleFirst ==
    /\ [](\A b \in DOMAIN run :
            /\ run[b].pc = "merchant" => ~run[b].force_ai
            /\ run[b].rule_matched
                   \cap (SeqIds(run[b].remaining) \cup SeqIds(run[b].desc_remaining)
                            \cup SeqIds(run[b].processable) \cup prompts[b]) = {})
    /\ [][\A b \in DOMAIN run :
             (/\ run[b].pc = "merchant"
              /\ run'[b] # run[b]
              /\ run'[b].pc # "complete")
             => LET tx == Uncategorized(run[b])[run[b].i]
                IN  (/\ Truthy(tx.normalized_merchant)
                     /\ MatchingRules(tx.normalized_merchant) # {})
                    => /\ \E r \in MatchingRules(tx.normalized_merchant) :
                              transactions'[tx.id].category_id = r.category_id
                       /\ transactions'[tx.id].categorization_source = "rule"
                       /\ transactions'[tx.id].confidence_score = 100
                       /\ tx.id \in run'[b].rule_matched]_vars

\* a transaction matched by a merchant rule, which a description rule
\* matches as well, carries the category of the merchant rule while another
\* candidate of the run was placed in a prompt
C10_Witness ==
    \E b \in DOMAIN run : \E id \in run[b].rule_matched :
        /\ prompts[b] # {}
        /\ transactions[id].categorization_source = "rule"
        /\ desc_find_matching_rule(transactions[id].description,
                                   transactions[id].account_id).id # NullId
        /\ \E r \in rules : r.category_id = transactions[id].category_id

(***************************************************************************)
(* Category resolution within a run.                                        *)
(***************************************************************************)
\* the categories whose name has the normalized form of name
SameName(cats, name) ==
    {c \in cats : _normalize_category_name(c.name) = _normalize_category_name(name)}

FullyClassified(tx) == tx.category_id # NullId /\ tx.enrichment_source # None

\* C12: a transaction that has both category_id and enrichment_source set
\* is not selected as a candidate, and no step of a run that did not select
\* it changes any of its fields
C12_ClassifiedUntouched ==
    /\ [][\A b \in DOMAIN run' \ DOMAIN run :
             run'[b].kind = "sync"
             => \A id \in SeqIds(run'[b].transactions) :
                    ~FullyClassified(transactions[id])]_vars
    /\ [][\A t \in DOMAIN call :
             (call[t].pc = "checked" /\ call'[t].pc = "created")
             => \A id \in SeqIds(call'[t].transactions) :
                    ~FullyClassified(transactions[id])]_vars
    /\ [][\A id \in DOMAIN transactions :
             (/\ FullyClassified(transactions[id])
              /\ run' # run
              /\ \A b \in DOMAIN run : id \notin SeqIds(run[b].transactions))
             => transactions'[id] = transactions[id]]_vars

(***************************************************************************)
(* The statements of an update of a transactions row.  The worker thread    *)
(* of a background job calls database.safe_update_transaction while the     *)
(* event loop thread serves TransactionService.update; both use the one     *)
(* connection of get_connection, outside any transaction, so the two calls  *)
(* interleave statement by statement.                                       *)
(***************************************************************************)
\* the updates the worker passes: the enrichment of apply_unified_results
\* for a categorized transaction, and a rule result of
\* apply_categorization_results
WorkerUpdates ==
    {[subcategory |-> SubCoffee, enrichment_source |-> "ai"],
     [category_id |-> 2, confidence_score |-> 100, categorization_source |-> "rule"]}

\* an id no row has
MissingId == NumTx + 1

NoRow == [id |-> NullId]

IdleStatement == [pc |-> "idle", id |-> NullId, result |-> None]

\* SELECT ... FROM transactions WHERE id = ?  followed by fetchone()
SelectRow(transaction_id) ==
    IF transaction_id \in DOMAIN transactions THEN transactions[transaction_id]
    ELSE NoRow

\* DELETE FROM transactions WHERE id = ?
DeleteRow(transaction_id) ==
    [i \in DOMAIN transactions \ {transaction_id} |-> transactions[i]]

\* INSERT INTO transactions: the primary key rejects a second row of the id
CanInsert(transaction_id) == transaction_id \notin DOMAIN transactions

InsertRow(transaction_id, row) == (transaction_id :> row) @@ transactions

\* safe_update_transaction lines 82-89: the row is read; None makes the
\* function return False
SafeUpdateSelect(transaction_id, updates) ==
    /\ stmt["worker"].pc = "idle"
    /\ LET row == SelectRow(transaction_id)
       IN  stmt' = [stmt EXCEPT !["worker"] =
               IF row = NoRow
               THEN [pc |-> "returned", id |-> transaction_id, result |-> "False",
                     updates |-> updates, row |-> row]
               ELSE [pc |-> "delete", id |-> transaction_id, result |-> None,
                     updates |-> updates, row |-> row]]
    /\ UNCHANGED <<GEMINI_API_KEY, transactions, categories, rules, desc_rules,
                   batches, _active_jobs, call, run, now, edits, prompts>>

\* safe_update_transaction line 93
SafeUpdateDelete ==
    /\ stmt["worker"].pc = "delete"
    /\ transactions' = DeleteRow(stmt["worker"].id)
    /\ stmt' = [stmt EXCEPT !["worker"].pc = "insert"]
    /\ UNCHANGED <<GEMINI_API_KEY, categories, rules, desc_rules,
                   batches, _active_jobs, call, run, now, edits, prompts>>

\* safe_update_transaction lines 91-99: row_dict.update(updates), the
\* INSERT of all the columns, return True
SafeUpdateInsert ==
    /\ stmt["worker"].pc = "insert"
    /\ LET f == stmt["worker"]
           row_dict == [c \in DOMAIN f.row |->
                           IF c \in DOMAIN f.updates THEN f.updates[c] ELSE f.row[c]]
       IN  IF CanInsert(f.id)
           THEN /\ transactions' = InsertRow(f.id, row_dict)
                /\ stmt' = [stmt EXCEPT !["worker"].pc = "returned",
                                        !["worker"].result = "True"]
           ELSE /\ stmt' = [stmt EXCEPT !["worker"].pc = "returned",
                                        !["worker"].result = "ConstraintException"]
                /\ UNCHANGED transactions
    /\ UNCHANGED <<GEMINI_API_KEY, categories, rules, desc_rules,
                   batches, _active_jobs, call, run, now, edits, prompts>>

\* TransactionService.update lines 260-262: get_by_id; None is returned
\* for a row that is not there
UpdateGet(transaction_id, data) ==
    /\ stmt["handler"].pc = "idle"
    /\ LET existing == SelectRow(transaction_id)
       IN  stmt' = [stmt EXCEPT !["handler"] =
               IF existing = NoRow
               THEN [pc |-> "returned", id |-> transaction_id, result |-> "None",
                     data |-> data, existing |-> existing, row |-> NoRow]
               ELSE [pc |-> "select", id |-> transaction_id, result |-> None,
                     data |-> data, existing |-> existing, row |-> NoRow]]
    /\ UNCHANGED <<GEMINI_API_KEY, transactions, categories, rules, desc_rules,
                   batches, _active_jobs, call, run, now, edits, prompts>>

\* lines 308-325: the row is read again; dict(zip(cols, None)) raises
\* TypeError when fetchone() returned None
UpdateSelect ==
    /\ stmt["handler"].pc = "select"
    /\ LET row == SelectRow(stmt["handler"].id)
       IN  stmt' = [stmt EXCEPT !["handler"] =
               IF row = NoRow
               THEN [@ EXCEPT !.pc = "returned", !.result = "TypeError"]
               ELSE [@ EXCEPT !.pc = "delete", !.row = row]]
    /\ UNCHANGED <<GEMINI_API_KEY, transactions, categories, rules, desc_rules,
                   batches, _active_jobs, call, run, now, edits, prompts>>

\* line 327
UpdateDelete ==
    /\ stmt["handler"].pc = "delete"
    /\ transactions' = DeleteRow(stmt["handler"].id)
    /\ stmt' = [stmt EXCEPT !["handler"].pc = "insert"]
    /\ UNCHANGED <<GEMINI_API_KEY, categories, rules, desc_rules,
                   batches, _active_jobs, call, run, now, edits, prompts>>

\* lines 264-283 and 321-346: the changes of the request are applied to the
\* row read, the columns listed are inserted, a rule is learned from a
\* changed category
UpdateInsert ==
    /\ stmt["handler"].pc = "insert"
    /\ LET f == stmt["handler"]
           category_set == f.data.category_id # 0
           category_changed == category_set /\ f.data.category_id # f.existing.category_id
           updated == [f.row EXCEPT
                          !.category_id = IF category_set THEN f.data.category_id ELSE @,
                          !.categorization_source =
                              IF category_changed THEN "manual" ELSE @]
           learned == RulesAfterCorrection(f.existing, category_changed,
                                           f.data.category_id)
       IN  IF CanInsert(f.id)
           THEN /\ transactions' = InsertRow(f.id,
                       [c \in DOMAIN f.row |->
                           IF c \in UpdateColumns THEN updated[c] ELSE ColumnDefault(c)])
                /\ rules' = learned.rules
                /\ desc_rules' = learned.desc_rules
                /\ now' = IF category_changed THEN now + 1 ELSE now
                /\ edits' = IF category_changed THEN edits + 1 ELSE edits
                /\ stmt' = [stmt EXCEPT !["handler"].pc = "returned",
                                        !["handler"].result = "updated"]
           ELSE /\ stmt' = [stmt EXCEPT !["handler"].pc = "returned",
                                        !["handler"].result = "ConstraintException"]
                /\ UNCHANGED <<transactions, rules, desc_rules, now, edits>>
    /\ UNCHANGED <<GEMINI_API_KEY, categories, batches, _active_jobs, call, run,
                   prompts>>

\* one call of safe_update_transaction by the worker thread and one call of
\* TransactionService.update by the event loop thread
InitUpdate ==
    /\ InitStore
    /\ InitProcess
    /\ call = <<>>
    /\ stmt = [u \in {"worker", "handler"} |-> IdleStatement]

NextUpdate ==
    \/ \E id \in TxIds \cup {MissingId}, updates \in WorkerUpdates :
           SafeUpdateSelect(id, updates)
    \/ SafeUpdateDelete
    \/ SafeUpdateInsert
    \/ \E id \in EditedIds \cup {MissingId}, data \in ManualEdits : UpdateGet(id, data)
    \/ UpdateSelect
    \/ UpdateDelete
    \/ UpdateInsert

SpecUpdate == InitUpdate /\ [][NextUpdate]_vars

\* C13: safe_update_transaction changes exactly the supplied fields of the
\* addressed row and leaves the other fields and rows as they are; for an
\* id without row it returns False and changes nothing; when a manual
\* update of the same row interleaves with it, both calls find the row and
\* succeed, and the manual change of the category is not lost to an update
\* of other fields
C13_AtomicPartialUpdate ==
    /\ [][(stmt["worker"].pc = "idle" /\ stmt'["worker"].pc # "idle"
               /\ stmt'["worker"].id = MissingId)
           => (stmt'["worker"].result = "False" /\ transactions' = transactions)]_vars
    /\ [][(stmt["worker"].pc = "insert" /\ stmt'["worker"].result = "True")
           => LET f == stmt["worker"]
              IN  /\ \A c \in DOMAIN f.updates : transactions'[f.id][c] = f.updates[c]
                  /\ \A c \in DOMAIN f.row \ DOMAIN f.updates :
                         transactions'[f.id][c] = f.row[c]
                  /\ \A i \in DOMAIN transactions : transactions'[i] = transactions[i]]_vars
    /\ [](\A u \in DOMAIN stmt :
            (stmt[u].pc = "returned" /\ stmt[u].id \in TxIds)
            => stmt[u].result \in {"True", "updated"})
    /\ [](LET w == stmt["worker"]
              h == stmt["handler"]
          IN  (/\ w.pc = "returned" /\ w.result = "True"
               /\ h.pc = "returned" /\ h.result = "updated"
               /\ w.id = h.id
               /\ "category_id" \notin DOMAIN w.updates
               /\ h.data.category_id # 0)
              => transactions[h.id].category_id = h.data.category_id)

(***************************************************************************)
(* Transactions with an empty description.                                  *)
(***************************************************************************)
\* the transactions of the AI work queue of run frame f that the filter of
\* _process_ai_batches dropped (the frame is past the filter)
EmptyDescriptionCount(f) ==
    Len(f.remaining) + Len(AlreadyCategorized(f)) - Len(f.processable)

\* C14: a transaction of the AI work queue whose description is empty or
\* blank is in no provider prompt, the filter modifies no transaction, and
\* the transaction adds exactly 1 to the final skipped_count of the run:
\* when the provider was not called at all, the final skipped_count is the
\* number of such transactions, for a synchronous and a background run
C14_EmptyDescriptionSkippedOnce ==
    /\ [](\A b \in DOMAIN run : \A k \in 1..Len(run[b].transactions) :
            HasEmptyDescription(run[b].transactions[k])
            => run[b].transactions[k].id \notin prompts[b])
    /\ [][\A b \in DOMAIN run :
             (run[b].pc = "filter" /\ run'[b] # run[b])
             => transactions' = transactions]_vars
    /\ [](\A b \in DOMAIN run :
            (/\ run[b].pc = "complete"
             /\ FinalCounters(b).error_message = None
             /\ prompts[b] = {})
            => FinalCounters(b).skipped_count = EmptyDescriptionCount(run[b]))

(***************************************************************************)
(* gemini_client.with_retry as a function of the outcomes of the attempts.  *)
(***************************************************************************)
\* the outcomes of the attempts of one call of invoke_and_parse; without
\* GEMINI_API_KEY every attempt fails in _get_client
RetryInputs ==
    [1..(CATEGORIZATION_MAX_RETRIES + 1) -> AttemptOutcomes \ {"not_configured"}]
        \cup {[k \in 1..(CATEGORIZATION_MAX_RETRIES + 1) |-> "not_configured"]}

InitRetry ==
    /\ \E outcomes \in RetryInputs :
           /\ stmt = [retry |-> [pc |-> "idle", outcomes |-> outcomes]]
           /\ GEMINI_API_KEY = (outcomes[1] # "not_configured")
    /\ transactions = [i \in TxIds |-> TxClassified]
    /\ categories = InitialCategories
    /\ rules = {}
    /\ desc_rules = {}
    /\ InitProcess
    /\ call = <<>>

\* invoke_and_parse called by classify_batch (lines 240-244): with_retry
\* runs the attempts; results is what classify_batch goes on with
InvokeAndParse ==
    /\ stmt["retry"].pc = "idle"
    /\ LET response == with_retry(stmt["retry"].outcomes)
       IN  stmt' = [stmt EXCEPT !["retry"] =
               [pc |-> "returned", outcomes |-> stmt["retry"].outcomes,
                response |-> response,
                results |-> IF RaisesAIClientError(response) THEN "[]" ELSE "parsed"]]
    /\ UNCHANGED <<GEMINI_API_KEY, transactions, categories, rules, desc_rules,
                   batches, _active_jobs, call, run, now, edits, prompts>>

NextRetry == InvokeAndParse

SpecRetry == InitRetry /\ [][NextRetry]_vars

\* the error classes the specification names as retried
TransientErrors == {"timeout", "rate_limit"}

Attempts == 1..(CATEGORIZATION_MAX_RETRIES + 1)

\* C15: when every attempt fails with a timeout or a rate-limit error,
\* with_retry makes exactly 4 attempts, sleeps 2, 4 and 8 seconds between
\* them and raises the last error, so that classify_batch returns no
\* results (the sub-batch is counted as failed); when an attempt succeeds
\* after such failures, its result is returned and no further attempt made
C15_RetriesThenRaises ==
    [](LET f == stmt["retry"]
       IN  f.pc = "returned"
           => /\ (\A k \in Attempts : f.outcomes[k] \in TransientErrors)
                 => /\ f.response.calls = 4
                    /\ f.response.sleeps = <<2, 4, 8>>
                    /\ f.response.result = f.outcomes[4]
                    /\ f.results = "[]"
              /\ \A k \in Attempts :
                    (/\ f.outcomes[k] = "ok"
                     /\ \A j \in 1..(k - 1) : f.outcomes[j] \in TransientErrors)
                    => /\ f.response.result = "ok"
                       /\ f.response.calls = k
                       /\ f.response.sleeps = SubSeq(<<2, 4, 8>>, 1, k - 1)
                       /\ f.results = "parsed")

\* all four attempts were made, the last two after different transient
\* errors, and the error of the last one was raised
C15_Witness ==
    LET f == stmt["retry"]
    IN  /\ f.pc = "returned"
        /\ f.outcomes = <<"timeout", "rate_limit", "timeout", "rate_limit">>
        /\ f.response.calls = 4
        /\ f.response.result = "rate_limit"

\* C16: an error that is neither a timeout nor a rate-limit error (an empty
\* provider response, an unexpected provider exception, ...) is raised
\* after a single attempt, without sleep and without second call
C16_OnlyTransientRetried ==
    [](LET f == stmt["retry"]
       IN  (f.pc = "returned" /\ f.outcomes[1] \notin TransientErrors \cup {"ok"})
           => /\ f.response.calls = 1
              /\ f.response.sleeps = <<>>
              /\ f.response.result = f.outcomes[1])

\* C17: an authentication error, a missing-credentials error or an
\* invalid-request error is raised by with_retry at the attempt it occurs
\* in, without sleeping again and without retry; as the error of the first
\* attempt it is raised after exactly one attempt and no sleep
C17_NonRetryableRaisedAtOnce ==
    [](LET f == stmt["retry"]
       IN  f.pc = "returned"
           => /\ f.outcomes[1] \in {"auth", "not_configured", "invalid"}
                 => /\ f.response.calls = 1
                    /\ f.response.sleeps = <<>>
                    /\ f.response.result = f.outcomes[1]
              /\ \A k \in Attempts :
                    (/\ f.outcomes[k] \in {"auth", "invalid"}
                     /\ \A j \in 1..(k - 1) : f.outcomes[j] \in TransientErrors)
                    => /\ f.response.calls = k
                       /\ Len(f.response.sleeps) = k - 1
                       /\ f.response.result = f.outcomes[k])

\* an invalid-request error of the first attempt was raised at once
C17_Witness ==
    LET f == stmt["retry"]
    IN  /\ f.pc = "returned"
        /\ f.outcomes[1] = "invalid"
        /\ f.outcomes[2] = "ok"
        /\ f.response.calls = 1
        /\ f.response.result = "invalid"

(***************************************************************************)
(* The sub-batches of _process_ai_batches, for queues longer than the       *)
(* sub-batch size.                                                          *)
(***************************************************************************)
\* the longest AI work queue
MaxQueue == 3

\* request.batch_size of a background run: 0 is None, 1 and 2 stand for the
\* values 10..200 the request model admits
ChunkSizes == {0, 1, 2}

\* the row of the k-th transaction of the queue
QueueRow(k) == IF k % 2 = 1 THEN TxPlain ELSE TxImported

\* what get_unclassified_transactions selected from a table of n such rows
QueueSnapshot(n) ==
    [k \in 1..n |->
        [id |-> k, description |-> QueueRow(k).description,
         original_description |-> QueueRow(k).original_description,
         normalized_merchant |-> QueueRow(k).normalized_merchant,
         account_id |-> QueueRow(k).account_id,
         category_id |-> QueueRow(k).category_id]]

\* a run with force_ai over n candidates was started: a background run with
\* any sub-batch size, or a synchronous run (which has no override)
InitChunks ==
    /\ GEMINI_API_KEY = TRUE
    /\ categories = InitialCategories
    /\ rules = {}
    /\ desc_rules = {}
    /\ call = <<>>
    /\ now = 2
    /\ edits = 0
    /\ InitStatements
    /\ prompts = (1 :> {})
    /\ \E n \in 1..MaxQueue, batch_size \in ChunkSizes, kind \in {"background", "sync"} :
           /\ kind = "sync" => batch_size = 0
           /\ transactions = [k \in 1..n |-> QueueRow(k)]
           /\ batches = <<create_batch(n)>>
           /\ _active_jobs = IF kind = "background" THEN (1 :> BatchJobState(1, n))
                             ELSE <<>>
           /\ run = (1 :> RunFrame(kind, QueueSnapshot(n), TRUE, batch_size))

NextChunks ==
    \/ \E b \in BatchIds : RunBegin(b)
    \/ \E b \in BatchIds : FilterStep(b)
    \/ \E b \in BatchIds : ClassifyBatch(b)
    \/ \E b \in BatchIds : ApplyResult(b)
    \/ \E b \in BatchIds : ApplyEnd(b)
    \/ \E b \in BatchIds : RunFinish(b)
    \/ \E b \in BatchIds : CompleteBatch(b)

SpecChunks == InitChunks /\ [][NextChunks]_vars

\* the sub-batch size of run frame f
ChunkSize(f) == IF f.batch_size # 0 THEN f.batch_size ELSE CATEGORIZATION_BATCH_SIZE

\* the number of chunks of n transactions in chunks of size: ceil(n / size)
CeilDiv(n, size) == (n + size - 1) \div size

\* the end of the chunk of the queue of f that begins after offset
ChunkEnd(f, offset) ==
    IF offset + ChunkSize(f) < Len(f.processable) THEN offset + ChunkSize(f)
    ELSE Len(f.processable)

\* C18: for N processable transactions and sub-batch size B the provider
\* client is called once for each of the offsets 0, B, 2B, ... below N, that
\* is ceil(N/B) times, with the transactions offset+1 .. min(offset+B, N) of
\* the queue: consecutive disjoint chunks of size B, the last one holding
\* the remainder, every transaction in exactly one chunk; a failing chunk
\* changes neither the queue nor the offsets of the later chunks
C18_ConsecutiveChunks ==
    /\ [](\A b \in DOMAIN run :
            run[b].pc \in {"batch", "apply"}
            => LET f == run[b]
               IN  /\ f.i % ChunkSize(f) = 0
                   /\ f.i < Len(f.processable)
                   /\ prompts[b] =
                          SeqIds(SubSeq(f.processable, 1,
                                        IF f.pc = "batch" THEN f.i ELSE ChunkEnd(f, f.i))))
    /\ [](\A b \in DOMAIN run :
            run[b].pc \in {"finish", "complete"}
            => LET f == run[b]
               IN  /\ f.i = CeilDiv(Len(f.processable), ChunkSize(f)) * ChunkSize(f)
                   /\ prompts[b] = SeqIds(f.processable))
    /\ [][\A b \in DOMAIN run :
             (run[b].pc = "batch" /\ run'[b] # run[b])
             => LET f == run[b]
                    chunk == SubSeq(f.processable, f.i + 1, ChunkEnd(f, f.i))
                IN  /\ prompts'[b] \ prompts[b] = SeqIds(chunk)
                    /\ Cardinality(SeqIds(chunk)) = Len(chunk)
                    /\ Len(chunk) = IF f.i + ChunkSize(f) <= Len(f.processable)
                                     THEN ChunkSize(f)
                                     ELSE Len(f.processable) - f.i]_vars
    /\ [][\A b \in DOMAIN run :
             (run[b].pc \in {"batch", "apply"} /\ run'[b] # run[b])
             => /\ run'[b].processable = run[b].processable
                /\ run'[b].i \in {run[b].i, run[b].i + ChunkSize(run[b])}
                /\ run'[b].pc \in {"batch", "finish"}
                       => run'[b].i = run[b].i + ChunkSize(run[b])]_vars

\* three transactions were sent in chunks of 2 and 1; a chunk failed and
\* results of another chunk were applied
C18_Witness ==
    \E b \in DOMAIN run :
        /\ run[b].pc = "finish"
        /\ Len(run[b].processable) = 3
        /\ run[b].batch_size = 2
        /\ run[b].i = 4
        /\ run[b].failure_total >= 2
        /\ run[b].success_total = 1

(***************************************************************************)
(* The rule stores under sequences of create_rule and delete_rule calls.    *)
(***************************************************************************)
\* the number of create_rule calls of a sequence
MaxCalls == 4

\* RuleService.delete_rule and DescRuleService.delete_rule: the row with the
\* id is deleted; False when get_by_id finds none
delete_rule(table, rule_id) == {r \in table : r.id # rule_id}

\* merchant patterns as callers pass them: two spellings of "a", and "b"
RulePatterns == {<<"a">>, <<"A", " ">>, <<"b">>}

\* description patterns as callers pass them
DescRulePatterns == {PatternD, <<"D", " ", "*">>}

RuleAccounts == {"acc1", "acc2"}

RuleCategories == {1, 2}

\* the rule ids a caller may pass to delete_rule
RuleIds == 1..MaxCalls

\* no call of a rule service was made yet
IdleRuleCall ==
    [op |-> "idle", pattern |-> <<>>, account_id |-> None, category_id |-> NullId,
     id |-> NullId, result |-> None]

InitRules ==
    /\ GEMINI_API_KEY = TRUE
    /\ transactions = [i \in TxIds |-> TxClassified]
    /\ categories = InitialCategories
    /\ rules = {}
    /\ desc_rules = {}
    /\ InitProcess
    /\ call = <<>>
    /\ stmt = [rule |-> IdleRuleCall]

\* RuleService.create_rule(data); returns get_by_id(rule_id)
CreateRule(merchant_pattern, category_id) ==
    /\ now < 2 + MaxCalls
    /\ rules' = create_rule(merchant_pattern, category_id)
    /\ now' = now + 1
    /\ stmt' = [rule |->
           [op |-> "create_rule", pattern |-> merchant_pattern, account_id |-> None,
            category_id |-> category_id,
            id |-> (CHOOSE r \in rules' :
                       r.merchant_pattern = Lower(Strip(merchant_pattern))).id,
            result |-> "rule"]]
    /\ UNCHANGED <<GEMINI_API_KEY, transactions, categories, desc_rules, batches,
                   _active_jobs, call, run, edits, prompts>>

\* RuleService.delete_rule(rule_id)
DeleteRule(rule_id) ==
    /\ rules' = delete_rule(rules, rule_id)
    /\ stmt' = [rule |->
           [op |-> "delete_rule", pattern |-> <<>>, account_id |-> None,
            category_id |-> NullId, id |-> rule_id,
            result |-> IF \E r \in rules : r.id = rule_id THEN "True" ELSE "False"]]
    /\ UNCHANGED <<GEMINI_API_KEY, transactions, categories, desc_rules, batches,
                   _active_jobs, call, run, now, edits, prompts>>

\* DescRuleService.create_rule(data)
DescCreateRule(description_pattern, account_id, category_id) ==
    /\ now < 2 + MaxCalls
    /\ LET out == desc_create_rule(description_pattern, account_id, category_id)
       IN  /\ desc_rules' = out.table
           /\ now' = IF out.raised THEN now ELSE now + 1
           /\ stmt' = [rule |->
                  [op |-> "desc_create_rule", pattern |-> description_pattern,
                   account_id |-> account_id, category_id |-> category_id,
                   id |-> NullId,
                   result |-> IF out.raised THEN "AttributeError" ELSE "rule"]]
    /\ UNCHANGED <<GEMINI_API_KEY, transactions, categories, rules, batches,
                   _active_jobs, call, run, edits, prompts>>

\* DescRuleService.delete_rule(rule_id)
DescDeleteRule(rule_id) ==
    /\ desc_rules' = delete_rule(desc_rules, rule_id)
    /\ stmt' = [rule |->
           [op |-> "desc_delete_rule", pattern |-> <<>>, account_id |-> None,
            category_id |-> NullId, id |-> rule_id,
            result |-> IF \E r \in desc_rules : r.id = rule_id THEN "True" ELSE "False"]]
    /\ UNCHANGED <<GEMINI_API_KEY, transactions, categories, rules, batches,
                   _active_jobs, call, run, now, edits, prompts>>

NextRules ==
    \/ \E p \in RulePatterns, c \in RuleCategories : CreateRule(p, c)
    \/ \E id \in RuleIds : DeleteRule(id)
    \/ \E p \in DescRulePatterns, a \in RuleAccounts, c \in RuleCategories :
           DescCreateRule(p, a, c)
    \/ \E id \in RuleIds : DescDeleteRule(id)

SpecRules == InitRules /\ [][NextRules]_vars

\* the normalized merchants find_matching_rule is asked about
RuleMerchants == {MerchantAb, <<"B">>, MerchantCd, <<>>, NullText}

\* the rules whose pattern is a substring of the lowercased merchant
RulesFor(normalized_merchant) ==
    IF ~Truthy(normalized_merchant) THEN {} ELSE MatchingRules(normalized_merchant)

\* C19: find_matching_rule returns, among the rules whose pattern is a
\* substring of the lowercased normalized merchant, the one with the latest
\* created_at (and no rule when none matches); a create_rule call on a new or
\* an existing pattern makes its rule the one returned for every merchant
\* the pattern matches: last correction wins
C19_LastCorrectionWins ==
    /\ [](\A m \in RuleMerchants :
            LET found == find_matching_rule(m)
            IN  IF RulesFor(m) = {} THEN found = NoRule
                ELSE /\ found \in RulesFor(m)
                     /\ \A q \in RulesFor(m) : q.created_at <= found.created_at)
    /\ [][stmt'["rule"].op = "create_rule" /\ stmt' # stmt
          => LET key == Lower(Strip(stmt'["rule"].pattern))
             IN  \A m \in RuleMerchants :
                     (Truthy(m) /\ Contains(key, Lower(m)))
                     => LET found == find_matching_rule(m)'
                        IN  /\ found.merchant_pattern = key
                            /\ found.category_id = stmt'["rule"].category_id
                            /\ found.id = stmt'["rule"].id]_vars

\* two rules match the merchant "Ab"; the older rule was upserted again and
\* is the one returned
C19_Witness ==
    /\ stmt["rule"].op = "create_rule"
    /\ \E r, q \in RulesFor(MerchantAb) :
           /\ r.id < q.id
           /\ r.created_at > q.created_at
           /\ r.id = stmt["rule"].id
           /\ find_matching_rule(MerchantAb) = r

\* C20: after any sequence of create_rule and delete_rule calls the merchant
\* rule store holds at most one rule per lowercase pattern and the
\* description rule store at most one rule per (account_id, lowercase
\* pattern); a create_rule call on a key that exists keeps the id of that
\* rule and replaces its category_id, and a create_rule call for a pattern
\* in an account that has no such rule adds a rule of its own, whatever the
\* other accounts hold
C20_OneRulePerKey ==
    /\ [](\A r, q \in rules :
            /\ r.merchant_pattern = Lower(Strip(r.merchant_pattern))
            /\ (r.merchant_pattern = q.merchant_pattern \/ r.id = q.id) => r = q)
    /\ [](\A r, q \in desc_rules :
            /\ r.description_pattern = Lower(Strip(r.description_pattern))
            /\ ((r.account_id = q.account_id
                    /\ r.description_pattern = q.description_pattern) \/ r.id = q.id)
                  => r = q)
    /\ [][stmt'["rule"].op = "create_rule" /\ stmt' # stmt
          => LET key == Lower(Strip(stmt'["rule"].pattern))
             IN  /\ \E q \in rules' :
                        /\ q.merchant_pattern = key
                        /\ q.category_id = stmt'["rule"].category_id
                        /\ \A r \in rules : r.merchant_pattern = key => q.id = r.id
                 /\ \A r \in rules : r.merchant_pattern # key => r \in rules']_vars
    /\ [][stmt'["rule"].op = "desc_create_rule" /\ stmt' # stmt
          => LET key == Lower(Strip(stmt'["rule"].pattern))
                 account_id == stmt'["rule"].account_id
                 SameKey(r) == r.account_id = account_id /\ r.description_pattern = key
             IN  /\ \E q \in desc_rules' :
                        /\ SameKey(q)
                        /\ q.category_id = stmt'["rule"].category_id
                        /\ \A r \in desc_rules : SameKey(r) => q.id = r.id
                 /\ \A r \in desc_rules : ~SameKey(r) => r \in desc_rules']_vars

(***************************************************************************)
(* Description rules and their accounts.                                    *)
(***************************************************************************)
\* C21: DescRuleService.find_matching_rule(description, account_id) returns
\* only a rule of the given account, and the second pass of the cascade
\* changes a transaction only through a rule of the transaction's account
\* whose pattern matches its description
C21_DescRuleAccountScoped ==
    /\ [](\A description \in {DescD123, DescD456, DescE7}, account_id \in RuleAccounts :
            LET found == desc_find_matching_rule(description, account_id)
            IN  found.id # NullId
                => found \in desc_rules /\ found.account_id = account_id)
    /\ [][\A b \in DOMAIN run :
             (run[b].pc = "desc" /\ run'[b] # run[b] /\ run'[b].pc # "complete")
             => LET tx == run[b].remaining[run[b].i]
                    own == {r \in desc_rules :
                               /\ r.account_id = tx.account_id
                               /\ _wildcard_to_regex(r.description_pattern,
                                                     Lower(Strip(tx.description)))}
                IN  IF transactions' # transactions
                    THEN /\ transactions'[tx.id].categorization_source = "desc_rule"
                         /\ \E r \in own :
                                transactions'[tx.id].category_id = r.category_id
                    ELSE own = {}]_vars

\* the second pass left a transaction of account acc2 to the AI although
\* the pattern of a rule of account acc1 matches its description
C21_Witness ==
    \E b \in DOMAIN run :
        /\ run[b].pc \in {"filter", "batch"}
        /\ \E k \in 1..Len(run[b].desc_remaining) :
               LET tx == run[b].desc_remaining[k]
               IN  /\ tx.account_id = "acc2"
                   /\ transactions[tx.id].categorization_source = None
                   /\ \E r \in desc_rules :
                          /\ r.account_id = "acc1"
                          /\ _wildcard_to_regex(r.description_pattern,
                                                Lower(Strip(tx.description)))

(***************************************************************************)
(* Rule learning: a manual correction, then a classification run.           *)
(***************************************************************************)
\* an uncategorized transaction of account acc1 without normalized merchant
TxNoMerchant ==
    Tx("acc1", DescD123, DescD123, NullText, NullId, NullScore, None,
       NullText, None, None)
\* its description is one digit run: extract_pattern gives "*"
TxDigits ==
    Tx("acc1", <<"4", "5", "6">>, <<"4", "5", "6">>, NullText, NullId, NullScore, None,
       NullText, None, None)
\* its description is one letter
TxShort ==
    Tx("acc1", <<"E">>, <<"E">>, NullText, NullId, NullScore, None,
       NullText, None, None)
\* a later transaction of account acc1 whose description differs from that
\* of TxNoMerchant in its digit run only
TxLater ==
    Tx("acc1", DescD456, DescD456, NullText, NullId, NullScore, None,
       NullText, None, None)

\* the rows of the transaction the user corrects
CorrectedRows == {TxMerchant, TxNoMerchant, TxDigits, TxShort, TxBlank}

\* the rows of the transaction that is classified afterwards
LaterRows == {TxLater, TxPlain}

\* the categories the user assigns
CorrectionEdits == {[category_id |-> c] : c \in {1, 2}}

InitCorrections ==
    /\ GEMINI_API_KEY = TRUE
    /\ \E corrected \in CorrectedRows, later \in LaterRows :
           transactions = [i \in TxIds |-> IF i = 1 THEN corrected
                                           ELSE IF i = 2 THEN later ELSE TxClassified]
    /\ categories = InitialCategories
    /\ rules = {}
    /\ desc_rules = {}
    /\ InitProcess
    /\ InitStatements
    /\ call = <<>>

\* the user corrects transaction 1; a synchronous run follows
NextCorrections ==
    \/ batches = <<>> /\ \E data \in CorrectionEdits : ManualUpdate(1, data)
    \/ batches = <<>> /\ SyncStart
    \/ \E b \in BatchIds : RunBegin(b)
    \/ \E b \in BatchIds : MerchantStep(b)
    \/ \E b \in BatchIds : DescStep(b)
    \/ \E b \in BatchIds : FilterStep(b)
    \/ \E b \in BatchIds : ClassifyBatch(b)
    \/ \E b \in BatchIds : ApplyResult(b)
    \/ \E b \in BatchIds : ApplyEnd(b)
    \/ \E b \in BatchIds : RunFinish(b)
    \/ \E b \in BatchIds : CompleteBatch(b)

SpecCorrections == InitCorrections /\ [][NextCorrections]_vars

\* transaction id was corrected by hand and has no normalized merchant
CorrectedWithoutMerchant(id) ==
    /\ transactions[id].categorization_source = "manual"
    /\ ~Truthy(transactions[id].normalized_merchant)
    /\ Strip(transactions[id].description) # <<>>

\* C22: a manual correction of a transaction without normalized_merchant,
\* with description D in account A, leaves a description rule for
\* (A, extract_pattern(D)) with the assigned category and creates no merchant
\* rule; a correction of a transaction with a normalized_merchant upserts a
\* merchant rule and creates no description rule; a later uncategorized
\* transaction of account A whose description has the same pattern is then
\* categorized by the cascade with source "desc_rule" and never placed in a
\* prompt
C22_CorrectionLearnsDescRule ==
    /\ [][edits' = edits + 1
          => LET existing == transactions[1]
                 category_id == transactions'[1].category_id
             IN  IF Truthy(existing.normalized_merchant)
                 THEN /\ \E r \in rules' :
                            /\ r.merchant_pattern = Lower(Strip(existing.normalized_merchant))
                            /\ r.category_id = category_id
                      /\ desc_rules' = desc_rules
                 ELSE /\ rules' = rules
                      /\ (Strip(existing.description) # <<>>
                             /\ extract_pattern(existing.description) # <<>>)
                          => \E r \in desc_rules' :
                                /\ r.account_id = existing.account_id
                                /\ r.description_pattern = extract_pattern(existing.description)
                                /\ r.category_id = category_id]_vars
    /\ [][\A b \in DOMAIN run :
             (run[b].pc = "desc" /\ run'[b] # run[b])
             => LET tx == run[b].remaining[run[b].i]
                IN  (/\ CorrectedWithoutMerchant(1)
                     /\ tx.id # 1
                     /\ tx.account_id = transactions[1].account_id
                     /\ extract_pattern(tx.description)
                            = extract_pattern(transactions[1].description))
                    => /\ transactions'[tx.id].categorization_source = "desc_rule"
                       /\ transactions'[tx.id].category_id = transactions[1].category_id]_vars
    /\ [](\A b \in DOMAIN run :
            (~run[b].force_ai /\ CorrectedWithoutMerchant(1))
            => \A id \in prompts[b] :
                  ~(/\ id # 1
                    /\ transactions[id].account_id = transactions[1].account_id
                    /\ extract_pattern(transactions[id].description)
                           = extract_pattern(transactions[1].description)))

\* a pattern no rule should be made of: empty, a lone wildcard, one character
Degenerate(pattern) == pattern = <<>> \/ pattern = <<"*">> \/ Len(pattern) = 1

IsSep(c) == IsSpace(c) \/ c = "-"

\* SENSITIVE_PATTERNS (lines 47-53): groups of digits with an optional
\* separator between them, or one run of min..max digits; every pattern is
\* enclosed in \b ... \b
SENSITIVE_PATTERNS ==
    <<[groups |-> <<4, 4, 4, 4>>, min |-> 0, max |-> 0,
       token |-> <<"[", "C", "A", "R", "D", "]">>],
      [groups |-> <<>>, min |-> 8, max |-> 17,
       token |-> <<"[", "A", "C", "C", "T", "]">>],
      [groups |-> <<>>, min |-> 9, max |-> 9,
       token |-> <<"[", "R", "O", "U", "T", "I", "N", "G", "]">>],
      [groups |-> <<3, 2, 4>>, min |-> 0, max |-> 0,
       token |-> <<"[", "S", "S", "N", "]">>]>>

\* length of the prefix of s that the digit groups match, -1 when none does
RECURSIVE GroupLen(_, _)
GroupLen(s, groups) ==
    LET n == Head(groups)
    IN  IF Len(s) < n \/ \E k \in 1..n : ~IsDigit(s[k]) THEN -1
        ELSE IF Len(groups) = 1 THEN n
        ELSE LET sep == IF Len(s) > n /\ IsSep(s[n + 1]) THEN 1 ELSE 0
                 rest == GroupLen(Drop(s, n + sep), Tail(groups))
             IN  IF rest < 0 THEN -1 ELSE n + sep + rest

\* length of the match of pattern p at the start of s, where prev is the
\* character before s; -1 when the pattern does not match there
MatchLen(prev, s, p) ==
    IF s = <<>> \/ ~IsDigit(Head(s)) \/ IsWord(prev) THEN -1
    ELSE LET n == IF p.groups # <<>> THEN GroupLen(s, p.groups)
                  ELSE IF DigitRunLen(s) >= p.min /\ DigitRunLen(s) <= p.max
                       THEN DigitRunLen(s) ELSE -1
         IN  IF n > 0 /\ (n = Len(s) \/ ~IsWord(s[n + 1])) THEN n ELSE -1

\* re.sub(pattern, replacement, s): leftmost non-overlapping matches. A
\* match begins with the first digit of a run of digits, so the text before
\* the next digit is copied, and a run at whose start the pattern does not
\* match is copied whole
RECURSIVE ReSub(_, _, _)
ReSub(prev, s, p) ==
    LET digits == {k \in 1..Len(s) : IsDigit(s[k])}
    IN  IF digits = {} THEN s
        ELSE LET first == CHOOSE k \in digits : \A j \in digits : k <= j
                 before == IF first = 1 THEN prev ELSE s[first - 1]
                 rest == Drop(s, first - 1)
                 n == MatchLen(before, rest, p)
                 skipped == DigitRunLen(rest)
             IN  SubSeq(s, 1, first - 1)
                     \o (IF n > 0 THEN p.token \o ReSub(rest[n], Drop(rest, n), p)
                         ELSE SubSeq(rest, 1, skipped)
                                  \o ReSub(rest[skipped], Drop(rest, skipped), p))

\* variant: the SSN pattern is not applied
_sanitize_for_ai_noSSN(description) ==
    IF ~Truthy(description) THEN <<>>
    ELSE ReSub(" ", ReSub(" ", ReSub(" ", description, SENSITIVE_PATTERNS[1]),
                          SENSITIVE_PATTERNS[2]), SENSITIVE_PATTERNS[3])

\* lines 56-63: the patterns are substituted one after the other
_sanitize_for_ai(description) ==
    IF ~Truthy(description) THEN <<>>
    ELSE ReSub(" ", ReSub(" ", ReSub(" ", ReSub(" ", description,
                                               SENSITIVE_PATTERNS[1]),
                                     SENSITIVE_PATTERNS[2]),
                          SENSITIVE_PATTERNS[3]), SENSITIVE_PATTERNS[4])

\* the slice [:500] of line 191
PromptDescriptionLimit == 500

\* build_unified_prompt lines 188-198: the merchant and description fields
\* of the prompt entry of transaction t
PromptEntry(t) ==
    LET merchant == IF Truthy(t.normalized_merchant) THEN t.normalized_merchant
                    ELSE t.description
        original_desc == IF Truthy(t.original_description) THEN t.original_description
                         ELSE <<>>
    IN  [merchant |-> _sanitize_for_ai(merchant),
         description |-> Take(_sanitize_for_ai(original_desc), PromptDescriptionLimit)]

\* a 16-digit number written with the given separator between its groups
CardText(sep) ==
    <<"4", "1", "1", "1">> \o sep \o <<"1", "1", "1", "1">> \o sep
        \o <<"2", "2", "2", "2">> \o sep \o <<"3", "3", "3", "3">>

\* 495 letters, a space and a card number: its token crosses the limit
LongText == [k \in 1..496 |-> IF k = 496 THEN " " ELSE "a"] \o CardText(<<>>)

\* texts of transactions: with card, account, routing and SSN numbers, with
\* digit runs that no pattern matches, and without digits
PromptTexts ==
    {DescD123,
     <<"P", "O", "S", " ">> \o CardText(<<" ">>),
     CardText(<<"-">>) \o <<" ", "X">>,
     <<"A", "C", "H", " ", "1", "2", "3", "4", "5", "6", "7", "8">>,
     <<"R", "T", " ", "1", "2", "3", "4", "5", "6", "7", "8", "9", " ", "B">>,
     <<"I", "D", " ", "1", "2", "3", "-", "4", "5", "-", "6", "7", "8", "9">>,
     <<"1", "2", "3", " ", "4", "5", " ", "6", "7", "8", "9", " ",
       "1", "2", "3", "4", "5", "6", "7", "8">>,
     <<"R", "E", "F", "1", "2", "3", "4", "5", "6", "7", "8">>,
     <<"1", "2", "3", "4", "5", "6", "7">>,
     LongText}

InitPrompt ==
    /\ \E normalized_merchant \in PromptTexts \cup {NullText},
          description \in PromptTexts,
          original_description \in PromptTexts \cup {NullText, <<>>} :
           stmt = [prompt |->
               [pc |-> "idle",
                t |-> [normalized_merchant |-> normalized_merchant,
                       description |-> description,
                       original_description |-> original_description],
                entry |-> [merchant |-> <<>>, description |-> <<>>]]]
    /\ GEMINI_API_KEY = TRUE
    /\ transactions = [i \in TxIds |-> TxClassified]
    /\ categories = InitialCategories
    /\ rules = {}
    /\ desc_rules = {}
    /\ InitProcess
    /\ call = <<>>

\* classify_batch line 238: the prompt entry of a transaction is built
BuildPrompt ==
    /\ stmt["prompt"].pc = "idle"
    /\ stmt' = [stmt EXCEPT !["prompt"] =
           [pc |-> "built", t |-> stmt["prompt"].t,
            entry |-> PromptEntry(stmt["prompt"].t)]]
    /\ UNCHANGED <<GEMINI_API_KEY, transactions, categories, rules, desc_rules,
                   batches, _active_jobs, call, run, now, edits, prompts>>

NextPrompt == BuildPrompt

SpecPrompt == InitPrompt /\ [][NextPrompt]_vars

\* some pattern of SENSITIVE_PATTERNS matches somewhere in the text
HasSensitive(text) ==
    \E k \in 1..Len(text), j \in 1..Len(SENSITIVE_PATTERNS) :
        MatchLen(IF k = 1 THEN " " ELSE text[k - 1], SubSeq(text, k, Len(text)),
                 SENSITIVE_PATTERNS[j]) > 0

C25_HighConfidenceLearnsRule ==
    [][\A b \in DOMAIN run :
          (run[b].pc = "apply" /\ run'[b].success = run[b].success + 1)
          => \A id \in DOMAIN transactions :
                (/\ transactions[id].category_id = NullId
                 /\ Truthy(transactions[id].normalized_merchant)
                 /\ transactions'[id].category_id # NullId
                 /\ transactions'[id].categorization_source = "ai")
                => LET key == Lower(Strip(transactions[id].normalized_merchant))
                       had == \E r \in rules : r.merchant_pattern = key
                   IN  IF transactions'[id].confidence_score = 95 /\ ~had
                       THEN \E r \in rules' :
                               /\ r.merchant_pattern = key
                               /\ r.category_id = transactions'[id].category_id
                       ELSE rules' = rules]_vars

(***************************************************************************)
(* Results that name a transaction outside the sub-batch.                   *)
(***************************************************************************)
\* C26: a result whose transaction_id is not the id of a transaction of the
\* sub-batch that was sent, or of no row of the store, changes no
\* transaction and is not counted as a success
C26_OnlySubBatchModified ==
    [][\A b \in DOMAIN run :
          (run[b].pc = "apply" /\ run'[b].drawn = run[b].drawn + 1)
          => \A item \in RawItems :
                (/\ item.transaction_id
                        \notin (SeqIds(SubBatch(run[b])) \cap DOMAIN transactions)
                 /\ ApplyItem(b, item))
                => /\ transactions' = transactions
                   /\ run'[b].success = run[b].success]_vars

(***************************************************************************)
(* The counters of a completed batch record.                                *)
(***************************************************************************)
\* C27: the counters of a batch record completed without error message
\* satisfy success_count + failure_count + skipped_count = transaction_count
\* and success_count = rule_match_count + desc_rule_match_count +
\* ai_match_count
C27_CountersAddUp ==
    \A b \in DOMAIN batches :
        (batches[b].completions = 1 /\ batches[b].error_message = None)
        => /\ batches[b].success_count + batches[b].failure_count
                  + batches[b].skipped_count = batches[b].transaction_count
           /\ batches[b].success_count =
                  batches[b].rule_match_count + batches[b].desc_rule_match_count
                      + batches[b].ai_match_count

(***************************************************************************)
(* Manual edits and the enrichment fields.                                  *)
(***************************************************************************)
\* C28: a manual edit through TransactionService.update (a step that changes
\* a transaction while no run and no trigger call advances) leaves
\* subcategory, is_discretionary and enrichment_source of every transaction
\* as they were, so that an enriched transaction with a category is not
\* selected for classification again
C28_EditKeepsEnrichment ==
    [][(run' = run /\ call' = call)
       => \A id \in DOMAIN transactions :
             /\ transactions'[id].subcategory = transactions[id].subcategory
             /\ transactions'[id].is_discretionary = transactions[id].is_discretionary
             /\ transactions'[id].enrichment_source = transactions[id].enrichment_source
             /\ (FullyClassified(transactions[id])
                    /\ transactions'[id].category_id # NullId)
                  => FullyClassified(transactions'[id])]_vars

(***************************************************************************)
(* Progress of a background job.                                            *)
(***************************************************************************)
\* C29: in every step of a background job processed_transactions does not
\* decrease and stays within total_transactions; the step that ends the
\* cascade adds the number of rule matches, the step that ends a sub-batch
\* (applied or failed) adds the size of the sub-batch, and a job whose
\* status is "completed" has processed all of total_transactions
C29_ProcessedProgress ==
    [][\A b \in DOMAIN _active_jobs :
          LET job == _active_jobs[b]
              job2 == _active_jobs'[b]
          IN  /\ job2.processed_transactions >= job.processed_transactions
              /\ job2.processed_transactions <= job2.total_transactions
              /\ job2.status = "completed"
                    => job2.processed_transactions = job2.total_transactions
              /\ (run[b].pc \in {"merchant", "desc"} /\ run'[b].pc = "filter")
                    => job2.processed_transactions =
                           job.processed_transactions + job2.rule_match_count
                               + job2.desc_rule_match_count
              /\ (run[b].pc \in {"batch", "apply"} /\ run'[b].i # run[b].i)
                    => job2.processed_transactions =
                           job.processed_transactions + Len(SubBatch(run[b]))]_vars

\* a completed job that counted a sub-batch of two transactions
C29_Witness ==
    \E b \in DOMAIN _active_jobs :
        /\ _active_jobs[b].status = "completed"
        /\ _active_jobs[b].total_transactions = NumTx
        /\ _active_jobs[b].processed_transactions = NumTx
        /\ run[b].i >= 2

(***************************************************************************)
(* Range of the counters.                                                   *)
(***************************************************************************)
\* C30: every counter of a completed batch record, of the result of a
\* finished synchronous run and of the progress snapshot of a background
\* job lies between 0 and the number of transactions of the run
C30_CountersInRange ==
    /\ \A b \in DOMAIN batches :
           batches[b].completions >= 1
           => \A c \in CounterFields : batches[b][c] \in 0..batches[b].transaction_count
    /\ \A b \in DOMAIN run :
           (~IsBackground(b) /\ run[b].pc \in {"complete", "done"})
           => \A c \in CounterFields : run[b][c] \in 0..run[b].total_count
    /\ \A b \in DOMAIN _active_jobs :
           \A c \in CounterFields :
               _active_jobs[b][c] \in 0.._active_jobs[b].total_transactions

====
